---- MODULE Spec2Model ----
(***************************************************************************)
(* A model of tender-cli's tool dispatch layer and parallel fan-out engine. *)
(*                                                                         *)
(*   SpecFanOut   MCPServer._run_parallel_tasks on a ThreadPoolExecutor     *)
(*   FairFanOut   the same, with the pool's workers scheduled fairly        *)
(*   SpecPool     the pool over several calls of _run_parallel_tasks        *)
(*   SpecChat     one exchange of AIClient.chat, MCPAgent.chat, a call of    *)
(*                SimpleMCPTools.call_tool, or a session of TenderAI         *)
(*   SpecExtract  _process_text_tool_calls on its own                       *)
(*   SpecRegistry the tool registry of BaseMCPTools                         *)
(*   SpecFiles    FileTools on a file system                                 *)
(*   SpecProjects ProjectManager and the project tools of MCPAgent           *)
(*   SpecSession  ConversationManager and TenderAI.process_message           *)
(***************************************************************************)
EXTENDS Integers, Sequences, FiniteSets, TLC

(***************************************************************************)
(* Bounds of the model.                                                    *)
(***************************************************************************)
MaxTasks == 3       \* tasks of a batch, SpecFanOut
MaxFairTasks == 2   \* tasks of a batch, FairFanOut
MaxPool == 2        \* workers of the pool
MaxCalls == 2       \* structured calls of one response
MaxContext == 1     \* tokens before, and after, a textual call
MaxValue == 3       \* tokens of a textual argument value
MaxSegments == 3    \* argument segments of a textual call
MaxNoCall == 4      \* tokens of a text without a call
MaxRegistrations == 3  \* calls of register_tool on one object
MaxCreates == 2     \* calls of create_mcp_server on one object
MaxFileOps == 3     \* calls of FileTools on one object
MaxProjectOps == 3  \* calls of ProjectManager and of the agent's tools
MaxMessages == 2    \* messages of one session of TenderAI
MaxHistory == 2     \* max_history of a ConversationManager made by hand
MaxAdds == 4        \* calls of add_message on it
MaxResubmits == 1   \* batches given to a pool after its first

VARIABLES
    \* ---- fan-out engine (mcp_server.py) ----
    task_list,       \* the batch: a sequence of [key, outcome]
    max_workers,     \* MCPServer.max_workers, the pool size
    fstate,          \* state of the future of each task
    runs,            \* how many times each task's function was started
    fpc,             \* position of the caller in _run_parallel_tasks
    pending,         \* as_completed: futures not yet yielded
    waiterQ,         \* as_completed: waiter.finished_futures
    yielding,        \* as_completed: the futures being yielded now
    results,         \* the results dict, keyed by str(task)
    completed,       \* the completed counter
    deadlinePassed,  \* the batch timeout has elapsed
    beforeDeadline,  \* the tasks whose function ended before the deadline
    collected,       \* the futures the loop of line 210 has been given
    outstanding,     \* the futures not finished when the report was returned
    report,          \* what _run_parallel_tasks returned
    \* ---- one exchange of AIClient.chat or MCPAgent.chat ----
    cfg,             \* the client and what it was constructed with
    cpc,             \* position of the exchange
    messages,        \* the messages list of AIClient.chat
    message,         \* the message of the first response
    tool_results,    \* the tool_results list
    prompt,          \* the prompt argument of AIClient.chat
    requests,        \* the requests made to the completion service
    calls,           \* the calls of the dispatcher, with their results
    xfrom,           \* the call site of _process_text_tool_calls
    xin,             \* the text given to _process_text_tool_calls
    matches,         \* the matches still to be processed
    xout,            \* result_parts (AIClient), text (MCPAgent)
    reply,           \* what chat returned
    \* ---- BaseMCPTools (base.py) ----
    subclass,        \* the class of the object
    fastmcp,         \* self.mcp_server is set
    tools_registry,  \* self._tools_registry
    registered,      \* the registrations made, with their outcome
    \* ---- FileTools (file_tools.py) ----
    current_project_dir,  \* self.current_project_dir
    fs,              \* the file system: the node at each path
    fops,            \* the calls made, with what they returned
    \* ---- ProjectManager (project_manager.py), on the same file system ----
    current_project,       \* self.current_project
    current_project_name,  \* self.current_project_name
    pops,            \* the calls made, with what they returned
    \* ---- ConversationManager and TenderAI.process_message ----
    max_history,     \* ConversationManager.max_history
    history,         \* ConversationManager.messages
    session,      \* the position of process_message and what it returned
    executor         \* the work items of earlier batches in the pool

fanVars == <<task_list, max_workers, fstate, runs, fpc, pending, waiterQ,
             yielding, results, completed, deadlinePassed, beforeDeadline,
             collected, outstanding, report>>

chatVars == <<cfg, prompt, cpc, messages, message, tool_results, requests, calls,
              xfrom, xin, matches, xout, reply>>

regVars == <<subclass, fastmcp, tools_registry, registered>>

fileVars == <<current_project_dir, fs, fops>>

pmVars == <<current_project, current_project_name, pops>>

sessVars == <<max_history, history, session>>

poolVars == <<executor>>

sysVars == <<regVars, fileVars, pmVars, sessVars, poolVars>>

\* What the actions of one component leave alone.
exceptRegistry == <<fanVars, chatVars, fileVars, pmVars, sessVars, poolVars>>
exceptFiles == <<fanVars, chatVars, regVars, pmVars, sessVars, poolVars>>
exceptProjects == <<fanVars, chatVars, regVars, current_project_dir, fops,
                    sessVars, poolVars>>
exceptSession == <<fanVars, chatVars, regVars, fileVars, pmVars, poolVars>>

vars == <<fanVars, chatVars, sysVars>>

(***************************************************************************)
(* Helpers on sequences and sets.                                          *)
(***************************************************************************)
Range(s) == {s[i] : i \in DOMAIN s}

Least(S) == CHOOSE x \in S : \A y \in S : x <= y
Greatest(S) == CHOOSE x \in S : \A y \in S : x >= y

Perms(S) == {s \in [1..Cardinality(S) -> S] : Range(s) = S}

(***************************************************************************)
(* Text.  A string is a sequence of tokens: the marker literal, one-char    *)
(* punctuation and white space, and words (runs of \w characters that the    *)
(* model does not look into).                                              *)
(***************************************************************************)
MARKER == "TOOL_CALL:"
SP == " "
NL == "\n"
LP == "("
RP == ")"
COMMA == ","
EQ == "="
DQ == "\""
SQ == "'"

WhiteSpace == {SP, NL}
Quotes == {DQ, SQ}
Punctuation == {LP, RP, COMMA, EQ, DQ, SQ, ".", ":"} \cup WhiteSpace
IsWord(t) == t # MARKER /\ t \notin Punctuation

\* str.strip(chars): the leading and the trailing characters in chars go,
\* as many as there are.
LStrip(s, chars) ==
    SubSeq(s, Least({j \in 1..(Len(s) + 1) : j > Len(s) \/ s[j] \notin chars}),
           Len(s))

RStrip(s, chars) ==
    SubSeq(s, 1, Greatest({j \in 0..Len(s) : j = 0 \/ s[j] \notin chars}))

Strip(s, chars) == RStrip(LStrip(s, chars), chars)

Contains(s, t) == \E i \in DOMAIN s : s[i] = t
FirstIndex(s, t) == CHOOSE i \in DOMAIN s : s[i] = t /\ \A j \in 1..(i-1) : s[j] # t

\* str.split(sep): the pieces between the separators, at least one piece.
RECURSIVE Split(_, _)
Split(s, sep) ==
    IF ~Contains(s, sep) THEN <<s>>
    ELSE LET i == FirstIndex(s, sep) IN
         <<SubSeq(s, 1, i - 1)>> \o Split(SubSeq(s, i + 1, Len(s)), sep)

\* s[i..] starts with pat
StartsAt(s, i, pat) ==
    /\ i + Len(pat) - 1 <= Len(s)
    /\ \A j \in DOMAIN pat : s[i + j - 1] = pat[j]

\* str.replace(old, new), old not empty: every occurrence, left to right,
\* not overlapping.
Occurrences(s, i, old) == {j \in i..Len(s) : StartsAt(s, j, old)}

RECURSIVE ReplaceFrom(_, _, _, _)
ReplaceFrom(s, i, old, new) ==
    IF Occurrences(s, i, old) = {} THEN SubSeq(s, i, Len(s))
    ELSE LET j == Least(Occurrences(s, i, old)) IN
         SubSeq(s, i, j - 1) \o new \o ReplaceFrom(s, j + Len(old), old, new)

Replace(s, old, new) == ReplaceFrom(s, 1, old, new)

(***************************************************************************)
(* The call extractor: re.findall(r'TOOL_CALL:\s*(\w+)\((.*?)\)', text)     *)
(* and the argument parser of _process_text_tool_calls.                    *)
(***************************************************************************)
\* The first index >= i whose token is not white space (Len(s)+1 if none).
SkipSpace(s, i) ==
    Least({j \in i..(Len(s) + 1) : j > Len(s) \/ s[j] \notin WhiteSpace})

\* The first index >= i whose token is not a word.
SkipWord(s, i) ==
    Least({j \in i..(Len(s) + 1) : j > Len(s) \/ ~IsWord(s[j])})

\* Mutant: the end of the text closes a call as well as ")" does.
FindCloseOrEnd(s, i) ==
    Least({j \in i..(Len(s) + 1) : j > Len(s) \/ s[j] = RP})

\* (.*?)\) : the first ")" at or after i with no newline before it; 0 if none.
FindClose(s, i) ==
    LET stops == {j \in i..Len(s) : s[j] \in {RP, NL}} IN
    IF stops = {} THEN 0
    ELSE IF s[Least(stops)] = RP THEN Least(stops) ELSE 0

NoMatch == [end |-> 0, name |-> <<>>, args |-> <<>>]

\* The match of the pattern that starts at index p, NoMatch if there is none.
MatchAt(s, p) ==
    IF p > Len(s) \/ s[p] # MARKER THEN NoMatch
    ELSE LET n == SkipSpace(s, p + 1)
             o == SkipWord(s, n)
         IN IF o = n \/ o > Len(s) \/ s[o] # LP THEN NoMatch
            ELSE LET c == FindClose(s, o + 1) IN
                 IF c = 0 THEN NoMatch
                 ELSE [end |-> c,
                       name |-> SubSeq(s, n, o - 1),
                       args |-> SubSeq(s, o + 1, c - 1)]

\* re.findall: the matches from left to right, each search resuming after
\* the end of the last match.
Starts(s, p) == {q \in p..Len(s) : MatchAt(s, q).end # 0}

RECURSIVE FindAllFrom(_, _)
FindAllFrom(s, p) ==
    IF Starts(s, p) = {} THEN <<>>
    ELSE LET m == MatchAt(s, Least(Starts(s, p))) IN
         <<[name |-> m.name, args |-> m.args]>> \o FindAllFrom(s, m.end + 1)

FindAll(s) == FindAllFrom(s, 1)

NoArgs == [k \in {} |-> <<>>]

\* arguments[key] = value
ArgSet(d, k, v) == [x \in DOMAIN d \cup {k} |-> IF x = k THEN v ELSE d[x]]

\* key.strip().strip('"\'') and value.strip().strip('"\'')
\* Mutant: the quotes stay.
KeepQuotes(s) == Strip(s, WhiteSpace)

\* key.strip().strip('"\''), lines 356-357.
Unquote(s) == Strip(Strip(s, WhiteSpace), Quotes)

RECURSIVE ParseSegments(_, _)

\* Mutant: a segment without "=" ends the parsing of the call.
AbortOnBare(segs, arguments) == arguments

\* Line 354, "if '=' in arg" is false: the loop goes on to the next segment.
SkipBare(segs, arguments) == ParseSegments(Tail(segs), arguments)

\* Lines 353-358: the segments between commas; one with an "=" is cut at
\* its first "=" into a key and a value, one without is passed over.
ParseSegments(segs, arguments) ==
    IF segs = <<>> THEN arguments
    ELSE LET arg == Head(segs) IN
         IF Contains(arg, EQ)
         THEN LET i == FirstIndex(arg, EQ)
                  key == Unquote(SubSeq(arg, 1, i - 1))
                  value == Unquote(SubSeq(arg, i + 1, Len(arg)))
              IN ParseSegments(Tail(segs), ArgSet(arguments, key, value))
         ELSE SkipBare(segs, arguments)

\* Lines 349-360.
ParseArguments(args_str) ==
    IF Strip(args_str, WhiteSpace) = <<>> THEN NoArgs
    ELSE ParseSegments(Split(args_str, COMMA), NoArgs)

(***************************************************************************)
(* The dispatchers.  A tool name, an argument key and an argument value are *)
(* strings; arguments is a dict from keys to values.  The result of a call  *)
(* is the string returned, with the return statement that made it (kind)    *)
(* and the capability that was invoked (cap, <<>> for none).  kind "raise"  *)
(* stands for an exception that leaves the dispatcher.  The messages of    *)
(* the source are written here in English, one constant per message.       *)
(***************************************************************************)
Name(w) == <<w>>
NoCap == <<>>
Result(kind, text, cap) == [kind |-> kind, text |-> text, cap |-> cap]

Has(arguments, w) == Name(w) \in DOMAIN arguments
\* arguments.get(key, default)
Get(arguments, w, default) ==
    IF Has(arguments, w) THEN arguments[Name(w)] ELSE default

\* What the environment makes of one capability call: it returns, or it
\* raises Exception(fault); present is what the call finds there (a current
\* project, a project in the list, an existing path, a successful export).
Faults == {"boom"}
Env == [fault : {"none"} \cup Faults, present : BOOLEAN]

\* ---- AIClient._call_mcp_tool, ai_client.py lines 172-201 ----
\* The tool names of lines 178-192 with the keys each reads from arguments,
\* in the order it reads them.
AIRequired ==
    [read_file |-> <<"path">>,
     write_file |-> <<"path", "content">>,
     list_files |-> <<"directory">>,
     get_section_structure |-> <<>>,
     generate_outline |-> <<"requirements", "tender_type">>,
     generate_subsection_content |-> <<"section", "subsection", "requirements">>,
     one_click_docx_export |-> <<>>]

AIHandled == {Name(w) : w \in DOMAIN AIRequired}

\* Mutant: an unknown name raises.
AIUnknownRaises(tool_name) ==
    Result("raise", <<"KeyError: ">> \o tool_name, NoCap)

\* Lines 194-195.
AIUnknownTool(tool_name) ==
    Result("unknown", <<"unknown tool: ">> \o tool_name, NoCap)

\* Mutant: no except clause, the exception leaves the dispatcher.
AIFaultPropagates(msg, cap) == Result("raise", msg, cap)

\* Lines 199-201: except Exception as e.
AIToolFault(msg, cap) == Result("fault", <<"tool call failed: ">> \o msg, cap)

\* The first key of req that arguments lacks, in a one-element sequence.
RECURSIVE FirstMissing(_, _)
FirstMissing(req, arguments) ==
    IF req = <<>> THEN <<>>
    ELSE IF ~Has(arguments, Head(req)) THEN <<Head(req)>>
    ELSE FirstMissing(Tail(req), arguments)

call_mcp_tool(server, tool_name, arguments, env) ==
    IF ~server THEN Result("refused", <<"MCP server not initialised">>, NoCap)
    ELSE IF tool_name \in AIHandled
    THEN LET missing == FirstMissing(AIRequired[tool_name[1]], arguments) IN
         IF missing # <<>>
         THEN AIToolFault(<<SQ>> \o missing \o <<SQ>>, NoCap)   \* KeyError
         ELSE IF env.fault # "none"
         THEN AIToolFault(<<env.fault>>, tool_name)
         ELSE Result("ok", <<"result of ">> \o tool_name, tool_name)
    ELSE AIUnknownTool(tool_name)

\* ---- MCPAgent._call_tool_directly, mcp_agent.py lines 356-467 ----
AgentHandled ==
    {Name(w) : w \in {"create_project", "list_projects", "switch_project",
                      "get_project_structure", "generate_outline",
                      "read_file", "list_files", "export_docx"}}

\* Mutant: an unknown name raises.
AgentUnknownRaises(tool_name) ==
    Result("raise", <<"KeyError: ">> \o tool_name, NoCap)

\* Lines 462-463.
AgentUnknownTool(tool_name) ==
    Result("unknown", <<"X unknown tool: ">> \o tool_name, NoCap)

\* Mutant: no except clause, the exception leaves the dispatcher.
AgentFaultPropagates(msg, cap) == Result("raise", msg, cap)

\* Lines 465-467: except Exception as e.
AgentToolFault(msg, cap) == Result("fault", <<"X tool call failed: ">> \o msg, cap)

\* A branch that calls capability cap: the exception it raises is caught,
\* otherwise the branch returns text.
AgentCall(env, cap, text) ==
    IF env.fault # "none" THEN AgentToolFault(<<env.fault>>, cap)
    ELSE Result("ok", text, cap)

call_tool_directly(pm, server, tool_name, arguments, env) ==
    IF tool_name = Name("create_project")
    THEN LET name == Get(arguments, "name", <<"new project">>) IN
         IF pm THEN AgentCall(env, tool_name, <<"OK project ">> \o name \o <<" created">>)
         ELSE Result("refused", <<"X project manager not initialised">>, NoCap)
    ELSE IF tool_name = Name("list_projects")
    THEN IF pm
         THEN AgentCall(env, tool_name,
                        IF env.present THEN <<"project list:">> ELSE <<"no projects">>)
         ELSE Result("refused", <<"X project manager not initialised">>, NoCap)
    ELSE IF tool_name = Name("switch_project")
    THEN LET name == Get(arguments, "name", <<>>) IN
         IF pm /\ name # <<>>
         THEN AgentCall(env, tool_name, <<"OK switched to project ">> \o name)
         ELSE Result("refused", <<"X project manager not initialised or name empty">>, NoCap)
    ELSE IF tool_name = Name("get_project_structure")
    THEN IF pm /\ env.present
         THEN AgentCall(env, tool_name, <<"project structure">>)
         ELSE Result("refused", <<"no active project">>, NoCap)
    ELSE IF tool_name = Name("generate_outline")
    THEN IF server
         THEN AgentCall(env, tool_name, <<"outline generated">>)
         ELSE Result("refused", <<"X MCP server not initialised">>, NoCap)
    ELSE IF tool_name = Name("read_file")
    THEN LET path == Get(arguments, "path", <<>>) IN
         IF path # <<>>
         THEN IF env.present
              THEN AgentCall(env, tool_name, <<"file content ">> \o path)
              ELSE Result("refused", <<"X file does not exist: ">> \o path, NoCap)
         ELSE Result("refused", <<"X file path empty">>, NoCap)
    ELSE IF tool_name = Name("list_files")
    THEN LET path == Get(arguments, "path", <<".">>) IN
         IF env.present
         THEN AgentCall(env, tool_name, <<"directory content ">> \o path)
         ELSE Result("refused", <<"X directory does not exist: ">> \o path, NoCap)
    ELSE IF tool_name = Name("export_docx")
    THEN IF server
         THEN AgentCall(env, tool_name,
                        IF env.present THEN <<"OK Word document exported">>
                        ELSE <<"X export failed">>)
         ELSE Result("refused", <<"X MCP server not initialised">>, NoCap)
    ELSE AgentUnknownTool(tool_name)

\* The dispatcher of the client.
Dispatch(c, tool_name, arguments, env) ==
    IF c.client = "AIClient"
    THEN call_mcp_tool(c.mcp_server, tool_name, arguments, env)
    ELSE call_tool_directly(c.project_manager, c.mcp_server, tool_name,
                            arguments, env)


\* self.available_tools, lines 63-170: empty without an MCP server.
\* The names of the tool definitions of lines 69-168.
AIAdvertised ==
    {Name(w) : w \in {"read_file", "write_file", "list_files",
                      "get_section_structure", "generate_outline",
                      "generate_subsection_content", "one_click_docx_export"}}

\* The names the instructions of the agent list for TOOL_CALL, mcp_agent.py
\* lines 72-82.
AgentAdvertised ==
    {Name(w) : w \in {"create_project", "list_projects", "switch_project",
                      "get_project_structure", "generate_outline",
                      "read_file", "write_file", "list_files",
                      "create_directory", "export_docx"}}

AvailableTools(c) == IF c.mcp_server THEN AIAdvertised ELSE {}

(***************************************************************************)
(* The state of a client before an exchange.                               *)
(***************************************************************************)
NoConfig == [client |-> "none", api_key |-> <<>>, base_url |-> <<>>,
             mock_mode |-> FALSE, mcp_server |-> FALSE,
             project_manager |-> FALSE, agent |-> FALSE]
NoReply == [kind |-> "none", text |-> <<>>]
NoMessage == [kind |-> "none"]

ExchangeIdle ==
    /\ cpc = "idle"
    /\ prompt = <<>>
    /\ messages = <<>>
    /\ message = NoMessage
    /\ tool_results = <<>>
    /\ requests = <<>>
    /\ calls = <<>>
    /\ xfrom = "none"
    /\ xin = <<>>
    /\ matches = <<>>
    /\ xout = <<>>
    /\ reply = NoReply

ChatIdle == cfg = NoConfig /\ ExchangeIdle

(***************************************************************************)
(* Tasks.  str(task) is the key of a task in the results dict; the outcome *)
(* is what task_func does on it: return ("ok") or raise Exception(msg).    *)
(***************************************************************************)
Keys == {"A", "B", "C", "D"}
Errors == {"x", "y"}
Outcomes == {"ok"} \cup Errors
Task == [key : Keys, outcome : Outcomes]

\* Batches up to a renaming of the keys: the i-th new key is the i-th of Keys.
KeyOrder == <<"A", "B", "C", "D">>
KeyIndex(k) == CHOOSE i \in DOMAIN KeyOrder : KeyOrder[i] = k
Canonical(b) ==
    \A i \in DOMAIN b :
        KeyIndex(b[i].key) <= 1 + Cardinality({b[j].key : j \in 1..(i-1)})

Batches(max) ==
    {b \in UNION {[1..n -> Task] : n \in 0..max} : Canonical(b)}

NoReport == [kind |-> "none"]

\* results[str(task)] = {"success": ..., "content": ..., "error": ...}
SuccessEntry == [success |-> TRUE, error |-> "None"]
FailureEntry(e) == [success |-> FALSE, error |-> e]
OutcomeEntry(t) ==
    IF t.outcome = "ok" THEN SuccessEntry ELSE FailureEntry(t.outcome)

\* results[str(task)] = ... : a dict assignment, the last write under a key wins
DictSet(d, k, v) == [x \in DOMAIN d \cup {k} |-> IF x = k THEN v ELSE d[x]]

EmptyDict == [x \in {} |-> SuccessEntry]

CountSuccess(d) == Cardinality({k \in DOMAIN d : d[k].success})

Total == Len(task_list)
Futures == DOMAIN task_list
Running == {i \in Futures : fstate[i] = "running"}
Queued == {i \in Futures : fstate[i] = "queued"}
Done == {i \in Futures : fstate[i] = "done"}

(***************************************************************************)
(* Initial state: an MCPServer with an idle pool.                          *)
(***************************************************************************)
\* The executor holds no work of an earlier batch.
PoolIdle == executor = [earlier |-> <<>>, resubmitted |-> 0, after |-> "none"]

\* The work items of earlier batches that a worker is running, and those
\* still in the queue.
EarlierRunning == {k \in DOMAIN executor.earlier : executor.earlier[k] = "running"}
EarlierQueued == {k \in DOMAIN executor.earlier : executor.earlier[k] = "queued"}

\* Mutant: the workers busy with earlier batches are not counted.
BusyWithBatch == Cardinality(Running)

\* The workers of the pool that are running a task function.
Busy == Cardinality(Running) + Cardinality(EarlierRunning)

FanIdle ==
    /\ task_list = <<>>
    /\ fstate = <<>>
    /\ runs = <<>>
    /\ fpc = "idle"
    /\ pending = {}
    /\ waiterQ = <<>>
    /\ yielding = <<>>
    /\ results = EmptyDict
    /\ completed = 0
    /\ deadlinePassed = FALSE
    /\ beforeDeadline = {}
    /\ collected = {}
    /\ outstanding = {}
    /\ report = NoReport

\* BaseMCPTools.__init__, base.py lines 25-32.
RegIdle ==
    /\ fastmcp = FALSE
    /\ tools_registry = NoArgs
    /\ registered = <<>>

\* FileTools.__init__, file_tools.py lines 17-18, on an empty disk.
FilesIdle ==
    /\ current_project_dir = <<"None">>
    /\ fs = [q \in {<<>>} |-> [kind |-> "dir"]]
    /\ fops = <<>>

\* ProjectManager.__init__, project_manager.py lines 21-25.
ProjectsIdle ==
    /\ current_project = <<"None">>
    /\ current_project_name = <<"None">>
    /\ pops = <<>>

\* No conversation.
SessionIdle ==
    /\ max_history = 0
    /\ history = <<>>
    /\ session = [pc |-> "none"]

SysIdle ==
    /\ subclass = "none"
    /\ PoolIdle
    /\ RegIdle
    /\ FilesIdle
    /\ ProjectsIdle
    /\ SessionIdle

FanInit ==
    /\ max_workers \in 1..MaxPool
    /\ FanIdle
    /\ ChatIdle
    /\ SysIdle

(***************************************************************************)
(* _run_parallel_tasks, lines 197-204: results = {} and every task is      *)
(* submitted to the executor.                                              *)
(***************************************************************************)
SubmitFrom(batches) ==
    /\ fpc = "idle"
    /\ \E b \in batches :
        /\ task_list' = b
        /\ fstate' = [i \in DOMAIN b |-> "queued"]
        /\ runs' = [i \in DOMAIN b |-> 0]
    /\ results' = EmptyDict
    /\ fpc' = "start"
    /\ UNCHANGED <<max_workers, pending, waiterQ, yielding, completed,
                   deadlinePassed, beforeDeadline, collected, outstanding,
                   report>>
    /\ UNCHANGED <<chatVars, sysVars>>

(***************************************************************************)
(* ThreadPoolExecutor: a free worker takes the oldest queued work item.    *)
(***************************************************************************)
WorkerStart(i) ==
    /\ i \in Queued
    /\ \A j \in Queued : i <= j
    /\ EarlierQueued = {}
    /\ Busy < max_workers
    /\ fstate' = [fstate EXCEPT ![i] = "running"]
    /\ runs' = [runs EXCEPT ![i] = @ + 1]
    /\ UNCHANGED <<task_list, max_workers, fpc, pending, waiterQ, yielding,
                   results, completed, deadlinePassed, beforeDeadline,
                   collected, outstanding, report>>
    /\ UNCHANGED <<chatVars, sysVars>>

\* The task function returns or raises: the future is finished and, when
\* as_completed is waiting on it, its waiter is told.
WorkerFinish(i) ==
    /\ i \in Running
    /\ fstate' = [fstate EXCEPT ![i] = "done"]
    /\ waiterQ' = IF fpc \in {"yield", "wait"} /\ i \in pending
                  THEN Append(waiterQ, i) ELSE waiterQ
    /\ beforeDeadline' = IF deadlinePassed THEN beforeDeadline
                         ELSE beforeDeadline \cup {i}
    /\ UNCHANGED <<task_list, max_workers, runs, fpc, pending, yielding,
                   results, completed, deadlinePassed, collected, outstanding,
                   report>>
    /\ UNCHANGED <<chatVars, sysVars>>

(***************************************************************************)
(* as_completed(future_to_task, timeout=self.timeout), line 210.           *)
(***************************************************************************)
\* First next(): the deadline is set, the futures already finished are
\* yielded first (a set: in any order), the others are pending.
AsCompletedStart ==
    /\ fpc = "start"
    /\ completed' = 0
    /\ collected' = {}
    /\ pending' = Futures \ Done
    /\ yielding' \in Perms(Done)
    /\ waiterQ' = <<>>
    /\ fpc' = "yield"
    /\ UNCHANGED <<task_list, max_workers, fstate, runs, results,
                   deadlinePassed, beforeDeadline, outstanding, report>>
    /\ UNCHANGED <<chatVars, sysVars>>

\* The loop body, lines 211-227, on the next yielded future.
RecordOutcome ==
    /\ fpc = "yield"
    /\ yielding # <<>>
    /\ LET i == Head(yielding) IN
        results' = DictSet(results, task_list[i].key, OutcomeEntry(task_list[i]))
    /\ completed' = completed + 1
    /\ collected' = collected \cup {Head(yielding)}
    /\ yielding' = Tail(yielding)
    /\ UNCHANGED <<task_list, max_workers, fstate, runs, fpc, pending, waiterQ,
                   deadlinePassed, beforeDeadline, outstanding, report>>
    /\ UNCHANGED <<chatVars, sysVars>>

\* while pending: the deadline has not elapsed, the caller waits on the event.
BeginWait ==
    /\ fpc = "yield"
    /\ yielding = <<>>
    /\ pending # {}
    /\ ~deadlinePassed
    /\ fpc' = "wait"
    /\ UNCHANGED <<task_list, max_workers, fstate, runs, pending, waiterQ,
                   yielding, results, completed, deadlinePassed,
                   beforeDeadline, collected, outstanding, report>>
    /\ UNCHANGED <<chatVars, sysVars>>

\* The wait ends, on the event or on the deadline: the futures the waiter was
\* told of are yielded in the order they finished.
EndWait ==
    /\ fpc = "wait"
    /\ waiterQ # <<>> \/ deadlinePassed
    /\ yielding' = waiterQ
    /\ pending' = pending \ Range(waiterQ)
    /\ waiterQ' = <<>>
    /\ fpc' = "yield"
    /\ UNCHANGED <<task_list, max_workers, fstate, runs, results, completed,
                   deadlinePassed, beforeDeadline, collected, outstanding,
                   report>>
    /\ UNCHANGED <<chatVars, sysVars>>

\* The batch timeout elapses while as_completed is in progress.
DeadlineElapses ==
    /\ fpc \in {"yield", "wait"}
    /\ ~deadlinePassed
    /\ deadlinePassed' = TRUE
    /\ UNCHANGED <<task_list, max_workers, fstate, runs, fpc, pending, waiterQ,
                   yielding, results, completed, beforeDeadline, collected,
                   outstanding, report>>
    /\ UNCHANGED <<chatVars, sysVars>>

(***************************************************************************)
(* The two returns of _run_parallel_tasks.                                 *)
(***************************************************************************)
\* Lines 229-234.
CompleteReport ==
    [kind |-> "report",
     total_tasks |-> Total,
     completed |-> completed,
     results |-> results,
     success_rate |-> <<CountSuccess(results), Total>>]

\* Lines 236-243.
TimeoutReport ==
    [kind |-> "report",
     total_tasks |-> Total,
     completed |-> Cardinality(DOMAIN results),
     results |-> results,
     error |-> "Timeout"]

\* Mutant: the return cancels the futures still in the queue.
FuturesCancelQueued ==
    [i \in Futures |-> IF fstate[i] = "queued" THEN "cancelled" ELSE fstate[i]]

\* Neither return touches the futures: none is cancelled, none resubmitted.
FuturesAfterReturn == fstate

ReturnComplete ==
    /\ fpc = "yield"
    /\ yielding = <<>>
    /\ pending = {}
    /\ Total > 0
    /\ report' = CompleteReport
    /\ fpc' = "returned"
    /\ fstate' = FuturesAfterReturn
    /\ outstanding' = Futures \ Done
    /\ UNCHANGED <<task_list, max_workers, runs, pending, waiterQ, yielding,
                   results, completed, deadlinePassed, beforeDeadline,
                   collected>>
    /\ UNCHANGED <<chatVars, sysVars>>

\* Line 233 with total = 0: the division raises ZeroDivisionError, which
\* the except clause of line 236 does not catch.
RaiseZeroDivision ==
    /\ fpc = "yield"
    /\ yielding = <<>>
    /\ pending = {}
    /\ Total = 0
    /\ report' = [kind |-> "raised", error |-> "ZeroDivisionError"]
    /\ fpc' = "raised"
    /\ fstate' = FuturesAfterReturn
    /\ outstanding' = Futures \ Done
    /\ UNCHANGED <<task_list, max_workers, runs, pending, waiterQ, yielding,
                   results, completed, deadlinePassed, beforeDeadline,
                   collected>>
    /\ UNCHANGED <<chatVars, sysVars>>

\* as_completed raises TimeoutError: futures are pending and the deadline
\* has elapsed.
ReturnTimeout ==
    /\ fpc = "yield"
    /\ yielding = <<>>
    /\ pending # {}
    /\ deadlinePassed
    /\ report' = TimeoutReport
    /\ fpc' = "returned"
    /\ fstate' = FuturesAfterReturn
    /\ outstanding' = Futures \ Done
    /\ UNCHANGED <<task_list, max_workers, runs, pending, waiterQ, yielding,
                   results, completed, deadlinePassed, beforeDeadline,
                   collected>>
    /\ UNCHANGED <<chatVars, sysVars>>

Submit(max) == SubmitFrom(Batches(max))

FanWorker == \E i \in Futures : WorkerStart(i) \/ WorkerFinish(i)

FanSteps ==
    \/ \E i \in Futures : WorkerStart(i)
    \/ \E i \in Futures : WorkerFinish(i)
    \/ AsCompletedStart
    \/ RecordOutcome
    \/ BeginWait
    \/ EndWait
    \/ DeadlineElapses
    \/ ReturnComplete
    \/ RaiseZeroDivision
    \/ ReturnTimeout

FanNext == Submit(MaxTasks) \/ FanSteps

(***************************************************************************)
(* The executor over several calls of _run_parallel_tasks: the futures a   *)
(* call left unfinished stay in the pool, ahead of those of the next call. *)
(***************************************************************************)
\* The states of the futures not done, in the order of the queue.
Unfinished ==
    LET RECURSIVE From(_)
        From(i) == IF i > Total THEN <<>>
                   ELSE IF fstate[i] = "done" THEN From(i + 1)
                   ELSE <<fstate[i]>> \o From(i + 1)
    IN  From(1)

Without(q, k) == SubSeq(q, 1, k - 1) \o SubSeq(q, k + 1, Len(q))

\* Lines 197-204 in a later call: the executor is the same.
SubmitAgain(batches) ==
    /\ fpc \in {"returned", "raised"}
    /\ executor.resubmitted < MaxResubmits
    /\ \E b \in batches :
        /\ task_list' = b
        /\ fstate' = [i \in DOMAIN b |-> "queued"]
        /\ runs' = [i \in DOMAIN b |-> 0]
    /\ executor' = [earlier |-> executor.earlier \o Unfinished,
                    resubmitted |-> executor.resubmitted + 1,
                    after |-> IF fpc = "raised" THEN "raised"
                              ELSE IF "error" \in DOMAIN report THEN "Timeout"
                              ELSE "complete"]
    /\ results' = EmptyDict
    /\ fpc' = "start"
    /\ pending' = {}
    /\ waiterQ' = <<>>
    /\ yielding' = <<>>
    /\ completed' = 0
    /\ deadlinePassed' = FALSE
    /\ beforeDeadline' = {}
    /\ collected' = {}
    /\ outstanding' = {}
    /\ report' = NoReport
    /\ UNCHANGED max_workers
    /\ UNCHANGED <<chatVars, regVars, fileVars, pmVars, sessVars>>

\* A free worker takes the oldest work item, one of an earlier call.
EarlierStart(k) ==
    /\ k \in EarlierQueued
    /\ \A j \in EarlierQueued : k <= j
    /\ Busy < max_workers
    /\ executor' = [executor EXCEPT !.earlier[k] = "running"]
    /\ UNCHANGED <<fanVars, chatVars, regVars, fileVars, pmVars, sessVars>>

\* The task function of an earlier call ends: nobody waits for its future.
EarlierFinish(k) ==
    /\ k \in EarlierRunning
    /\ executor' = [executor EXCEPT !.earlier = Without(@, k)]
    /\ UNCHANGED <<fanVars, chatVars, regVars, fileVars, pmVars, sessVars>>

\* Batches of tasks that differ, each returning or raising.
PoolBatches ==
    UNION {{[i \in 1..n |-> [key |-> KeyOrder[i], outcome |-> o[i]]] :
               o \in [1..n -> {"ok", "x"}]} : n \in 0..MaxFairTasks}

PoolNext ==
    \/ SubmitFrom(PoolBatches)
    \/ SubmitAgain(PoolBatches)
    \/ \E k \in DOMAIN executor.earlier : EarlierStart(k)
    \/ \E k \in DOMAIN executor.earlier : EarlierFinish(k)
    \/ FanSteps

SpecPool == FanInit /\ [][PoolNext]_vars

SpecFanOut == FanInit /\ [][FanNext]_vars

\* The executor's worker threads keep taking work items and every task
\* function ends: the workers' steps are weakly fair.
FairNext == Submit(MaxFairTasks) \/ FanSteps

FairFanOut == FanInit /\ [][FairNext]_vars /\ WF_vars(FanWorker)

(***************************************************************************)
(* One exchange.  The completion service and the agent run are the          *)
(* environment: what they answer is drawn from the sets below.             *)
(***************************************************************************)
\* The clients, as TenderAI.__init__ or a caller of the classes can build
\* them.  agent is FALSE when MCPAgent._init_agent failed.
\* config["api_key"] and config["base_url"] as written in the
\* configuration: absent or empty, white space only, a value.
Credentials ==
    { <<<<>>, <<>>>>,
      <<<<SP>>, <<NL, SP>>>>,
      <<<<SP, "k">>, <<>>>>,
      <<<<SP>>, <<"u", NL>>>> }

\* Mutant: the endpoint is not looked at.
MockModeKeyOnly(api_key, base_url) == api_key = <<>>

\* AIClient.__init__, line 30; api_key and base_url are the stripped texts
\* of lines 21-22, and bool(s) of a text is s != "".
MockMode(api_key, base_url) == ~(api_key # <<>> \/ base_url # <<>>)

\* AIClient.__init__, lines 17-39.
AIClientInit(config, mcp_server) ==
    LET api_key == Strip(config[1], WhiteSpace)
        base_url == Strip(config[2], WhiteSpace)
    IN  [client |-> "AIClient", api_key |-> api_key, base_url |-> base_url,
         mock_mode |-> MockMode(api_key, base_url), mcp_server |-> mcp_server,
         project_manager |-> FALSE, agent |-> FALSE]

Configs ==
    {AIClientInit(config, s) : config \in Credentials, s \in BOOLEAN}
    \cup
    {[client |-> "MCPAgent", api_key |-> <<>>, base_url |-> <<>>,
      mock_mode |-> FALSE, mcp_server |-> s,
      project_manager |-> s, agent |-> a] : s \in BOOLEAN, a \in BOOLEAN}
    \cup
    {[client |-> "SimpleMCPTools", api_key |-> <<>>, base_url |-> <<>>,
      mock_mode |-> FALSE, mcp_server |-> FALSE,
      project_manager |-> FALSE, agent |-> FALSE]}

\* Argument maps.
ArgPath == ArgSet(NoArgs, <<"path">>, <<"p">>)
ArgMaps == {NoArgs, ArgPath, ArgSet(ArgPath, <<"content">>, <<"c">>)}

\* Tool names: handled by one dispatcher, by several, by none.
ToolNames == {Name(w) : w \in {"read_file", "write_file",
                               "get_section_structure", "create_project",
                               "f"}}

\* tool_call.function of a structured call: arguments is a JSON text that
\* json.loads decodes (json_ok) or not.
ToolCall(w, json_ok, arguments) ==
    [name |-> Name(w), json_ok |-> json_ok, arguments |-> arguments]

ToolCalls ==
    {ToolCall("read_file", TRUE, ArgPath),
     ToolCall("read_file", FALSE, ArgPath),
     ToolCall("write_file", TRUE, ArgPath),
     ToolCall("get_section_structure", TRUE, NoArgs),
     ToolCall("create_project", TRUE, ArgPath),
     ToolCall("f", TRUE, NoArgs)}

\* json.loads(tool_call.function.arguments), {} on JSONDecodeError;
\* lines 265-268.
LoadArguments(tool_call) ==
    IF tool_call.json_ok THEN tool_call.arguments ELSE NoArgs

RECURSIVE SeqsUpTo(_, _)
SeqsUpTo(S, n) ==
    IF n = 0 THEN {<<>>}
    ELSE LET shorter == SeqsUpTo(S, n - 1) IN
         shorter \cup {Append(q, x) : q \in shorter, x \in S}

TextCall(tool, args_str) == <<MARKER, SP, tool, LP>> \o args_str \o <<RP>>

\* Texts a model answers with.
ChatTexts ==
    {<<"hello">>,
     <<SP, "hello", NL>>,
     <<MARKER, SP, "oops">>,
     <<"see", SP>> \o TextCall("f", <<>>),
     <<MARKER, "f", LP, RP>>,
     TextCall("read_file", <<"path", EQ, DQ, "p", DQ>>) \o <<NL>>,
     TextCall("read_file", <<>>),
     TextCall("create_project", <<"name", EQ, SQ, "n", SQ>>),
     TextCall("f", <<>>) \o <<NL>> \o TextCall("read_file", <<"path", EQ, "p">>)}

\* What str(e) of an exception of the service contains.
Exceptions == {"authentication", "connection", "rate limit"}

\* message.content of a response: a text or None.
Contents == [kind : {"text"}, text : ChatTexts] \cup {[kind |-> "None"]}

\* tool_call.id: the service gives each call of a response an id of its own.
Identified(q) ==
    [i \in DOMAIN q |-> [id |-> i, name |-> q[i].name,
                         json_ok |-> q[i].json_ok,
                         arguments |-> q[i].arguments]]

\* Answers of chat.completions.create.
Responses ==
    [kind : {"message"}, content : Contents, tool_calls : {<<>>}]
    \cup [kind : {"message"},
          content : {[kind |-> "None"], [kind |-> "text", text |-> <<"hello">>]},
          tool_calls : {Identified(q) : q \in SeqsUpTo(ToolCalls, MaxCalls)} \ {<<>>}]
    \cup [kind : {"raise"}, error : Exceptions]

\* The answers to a request made without tools: their tool_calls are not
\* read.
Answers == {r \in Responses : r.kind = "raise" \/ r.tool_calls = <<>>}

Msg(role, content) == [role |-> role, content |-> content]

\* Lines 283-287: the message of one tool result.
ToolMsg(tool_call_id, content) ==
    [role |-> "tool", tool_call_id |-> tool_call_id, content |-> content]

\* Lines 277-280: the assistant message that precedes the tool results.
AssistantMsg(msg) ==
    Msg("assistant",
        IF msg.content.kind = "None" THEN <<"I will use tools">>
        ELSE msg.content.text)

\* Mutant: the tool results are appended last call first.
ExtendedReversed(msgs, msg, results_) ==
    Append(msgs, AssistantMsg(msg))
        \o [i \in 1..Len(results_) |->
              ToolMsg(msg.tool_calls[Len(results_) + 1 - i].id,
                      results_[Len(results_) + 1 - i])]

\* Lines 277-287: messages after the assistant message and one tool
\* message per call of message.tool_calls, in their order, were appended.
ExtendedMessages(msgs, msg, results_) ==
    Append(msgs, AssistantMsg(msg))
        \o [i \in 1..Len(results_) |->
              ToolMsg(msg.tool_calls[i].id, results_[i])]

\* The except clause of lines 321-328.
ChatFailure(error) ==
    [kind |-> IF error = "authentication" THEN "authentication failed"
              ELSE IF error = "connection" THEN "connection failed"
              ELSE "service failed",
     text |-> <<error>>]

\* An AttributeError: None has no attribute strip.
NoneHasNoStrip == "'NoneType' object has no attribute 'strip'"

UnchangedExtractor == UNCHANGED <<xfrom, xin, matches, xout>>

\* The texts that _get_mock_response looks for in the prompt; the four
\* Chinese ones are written by their meaning.
ZhAnalyze == "zh:analyze the user's intent"
ZhCreate == "zh:create project"
ZhOutline == "zh:generate outline"
ZhView == "zh:view"
ZhExport == "zh:export"

\* str.lower() of a token.
Lower(t) ==
    IF t = "Analyze" THEN "analyze"
    ELSE IF t = "CREATE" THEN "create"
    ELSE IF t = "Outline" THEN "outline"
    ELSE t

LowerAll(s) == [i \in DOMAIN s |-> Lower(s[i])]

\* Lines 370-438: the canned answers, chosen by what the prompt contains.
\* system_prompt is not read.
get_mock_response(p, system_prompt) ==
    LET prompt_lower == LowerAll(p) IN
    IF Contains(p, ZhAnalyze) \/ Contains(prompt_lower, "analyze")
    THEN IF Contains(p, ZhCreate) \/ Contains(prompt_lower, "create")
         THEN <<"intent: create_project">>
         ELSE IF Contains(p, ZhOutline) \/ Contains(prompt_lower, "outline")
         THEN <<"intent: generate_outline">>
         ELSE IF Contains(p, ZhView) \/ Contains(prompt_lower, "view")
         THEN <<"intent: view_content">>
         ELSE IF Contains(p, ZhExport) \/ Contains(prompt_lower, "export")
         THEN <<"intent: export_document">>
         ELSE <<"mock response">>
    ELSE <<"mock response">>

\* The prompts given to a client in mock mode.
MockPrompts ==
    { <<"hello">>, <<"create">>, <<"analyze">>,
      <<"analyze", SP, "create">>, <<"Analyze", SP, "CREATE">>,
      <<"analyze", SP, "outline", SP, "create">>,
      <<"analyze", SP, "Outline">>, <<"analyze", SP, "view">>,
      <<"analyze", SP, "export">>,
      <<ZhAnalyze, ZhCreate>>, <<ZhAnalyze, ZhOutline>>,
      <<ZhAnalyze, ZhView>>, <<ZhAnalyze, ZhExport>> }

\* AIClient.chat, lines 206-207.
ChatMock ==
    /\ cfg.client = "AIClient" /\ cfg.mock_mode
    /\ cpc = "idle"
    /\ \E p \in MockPrompts, system_prompt \in BOOLEAN :
         /\ prompt' = p
         /\ reply' = [kind |-> "mock",
                      text |-> get_mock_response(p, system_prompt)]
    /\ cpc' = "done"
    /\ UNCHANGED <<cfg, messages, message, tool_results, requests, calls>>
    /\ UnchangedExtractor
    /\ UNCHANGED <<fanVars, sysVars>>

\* Lines 469-482: is_available, test_response being what the chat of line
\* 476 returned; a failure reply of chat carries the warning sign.
is_available(c, test_response) ==
    IF c.mock_mode THEN TRUE
    ELSE /\ test_response.kind = "text"
         /\ Strip(test_response.text, WhiteSpace) # <<>>

\* AIClient.chat, lines 209-251: the messages list is built.
ChatBegin ==
    /\ cfg.client = "AIClient" /\ ~cfg.mock_mode
    /\ cpc = "idle"
    /\ prompt' = <<"prompt">>
    /\ \E system_prompt \in BOOLEAN :
         messages' = (IF system_prompt
                      THEN <<Msg("system", <<"system_prompt">>)>> ELSE <<>>)
                     \o <<Msg("user", prompt')>>
    /\ cpc' = IF AvailableTools(cfg) # {} THEN "first" ELSE "plain"
    /\ UNCHANGED <<cfg, message, tool_results, requests, calls, reply>>
    /\ UnchangedExtractor
    /\ UNCHANGED <<fanVars, sysVars>>

\* Lines 252-260 and 300-309: the request with tools.  An exception of the
\* request, or of message.content.strip(), is caught at line 305.
FirstRequest ==
    /\ cpc = "first"
    /\ \E response \in Responses :
         /\ requests' = Append(requests, [site |-> "first", tools |-> TRUE,
                                           messages |-> messages])
         /\ IF response.kind = "raise"
            THEN /\ cpc' = "plain"
                 /\ UNCHANGED <<message, xfrom, xin>>
            ELSE IF response.tool_calls # <<>>
            THEN /\ message' = response
                 /\ cpc' = "loop"
                 /\ UNCHANGED <<xfrom, xin>>
            ELSE IF response.content.kind = "None"
            THEN /\ cpc' = "plain"
                 /\ UNCHANGED <<message, xfrom, xin>>
            ELSE /\ message' = response
                 /\ xin' = Strip(response.content.text, WhiteSpace)
                 /\ xfrom' = "first"
                 /\ cpc' = "extract"
    /\ UNCHANGED <<cfg, prompt, messages, tool_results, calls, matches, xout, reply>>
    /\ UNCHANGED <<fanVars, sysVars>>

\* The exception that the capability invoked by a call raised, "none" when it
\* returned and when none was invoked.
Fault(tool_result, env) ==
    IF tool_result.cap = NoCap THEN "none" ELSE env.fault

\* The exception e leaves the try block that _process_text_tool_calls or
\* the tool loop was called from: the except clause of line 305 falls back
\* to the plain request, that of lines 321-328 and of mcp_agent.py lines
\* 311-313 return a failure reply, a direct call raises to its caller.
Propagate(site, e) ==
    IF site = "first"
    THEN /\ cpc' = "plain"
         /\ reply' = reply
    ELSE /\ cpc' = "done"
         /\ reply' = IF site = "plain" THEN ChatFailure(e)
                     ELSE IF site = "agent"
                     THEN [kind |-> "chat failed", text |-> <<e>>]
                     ELSE [kind |-> "raised", text |-> <<e>>]

\* Lines 263-274: one turn of the loop over message.tool_calls.
StructuredCall ==
    /\ cpc = "loop"
    /\ Len(tool_results) < Len(message.tool_calls)
    /\ \E env \in Env :
         LET tool_call == message.tool_calls[Len(tool_results) + 1]
             tool_name == tool_call.name
             arguments == LoadArguments(tool_call)
             tool_result == call_mcp_tool(cfg.mcp_server, tool_name,
                                          arguments, env)
         IN  /\ calls' = Append(calls, [site |-> "structured",
                                        name |-> tool_name,
                                        arguments |-> arguments,
                                        result |-> tool_result,
                                        fault |-> Fault(tool_result, env)])
             /\ IF tool_result.kind = "raise"
                THEN /\ Propagate("first", "tool")
                     /\ UNCHANGED tool_results
                ELSE /\ tool_results' =
                          Append(tool_results,
                                 <<"tool ">> \o tool_name
                                 \o <<" result:", NL>> \o tool_result.text)
                     /\ UNCHANGED <<cpc, reply>>
    /\ UNCHANGED <<cfg, prompt, messages, message, requests>>
    /\ UnchangedExtractor
    /\ UNCHANGED <<fanVars, sysVars>>

\* Lines 277-299 and 305-309: the assistant message and one tool message
\* per call are appended and the reply is requested, without tools.
SecondRequest ==
    /\ cpc = "loop"
    /\ Len(tool_results) = Len(message.tool_calls)
    /\ LET extended == ExtendedMessages(messages, message, tool_results)
       IN  /\ messages' = extended
           /\ requests' = Append(requests,
                                 [site |-> "second", tools |-> FALSE,
                                  messages |-> extended])
    /\ \E response \in Answers :
         /\ IF response.kind = "raise" \/ response.content.kind = "None"
            THEN /\ cpc' = "plain"
                 /\ UNCHANGED reply
            ELSE /\ reply' = [kind |-> "text",
                              text |-> Strip(response.content.text, WhiteSpace)]
                 /\ cpc' = "done"
    /\ UNCHANGED <<cfg, prompt, message, tool_results, calls>>
    /\ UnchangedExtractor
    /\ UNCHANGED <<fanVars, sysVars>>

\* Lines 312-328: the plain request.  request_params holds the messages
\* list itself, and no tools once line 308 has run.
PlainRequest ==
    /\ cpc = "plain"
    /\ requests' = Append(requests, [site |-> "plain", tools |-> FALSE,
                                     messages |-> messages])
    /\ \E response \in Answers :
         /\ IF response.kind = "raise"
            THEN /\ cpc' = "done"
                 /\ reply' = ChatFailure(response.error)
                 /\ UNCHANGED <<xfrom, xin>>
            ELSE IF response.content.kind = "None"
            THEN /\ cpc' = "done"
                 /\ reply' = ChatFailure(NoneHasNoStrip)
                 /\ UNCHANGED <<xfrom, xin>>
            ELSE /\ xin' = Strip(response.content.text, WhiteSpace)
                 /\ xfrom' = "plain"
                 /\ cpc' = "extract"
                 /\ UNCHANGED reply
    /\ UNCHANGED <<cfg, prompt, messages, message, tool_results, calls, matches, xout>>
    /\ UNCHANGED <<fanVars, sysVars>>

\* MCPAgent.chat, lines 297-313 before the call of line 307.
AgentChat ==
    /\ cfg.client = "MCPAgent"
    /\ cpc = "idle"
    /\ IF ~cfg.agent
       THEN /\ reply' = [kind |-> "agent not initialised", text |-> <<>>]
            /\ cpc' = "done"
            /\ UNCHANGED <<xfrom, xin>>
       ELSE \E response \in [kind : {"text"}, text : ChatTexts]
                            \cup [kind : {"raise"}, error : Exceptions] :
              IF response.kind = "raise"
              THEN /\ reply' = [kind |-> "chat failed",
                                text |-> <<response.error>>]
                   /\ cpc' = "done"
                   /\ UNCHANGED <<xfrom, xin>>
              ELSE /\ xin' = response.text
                   /\ xfrom' = "agent"
                   /\ cpc' = "extract"
                   /\ UNCHANGED reply
    /\ UNCHANGED <<cfg, prompt, messages, message, tool_results, requests, calls,
                   matches, xout>>
    /\ UNCHANGED <<fanVars, sysVars>>

\* ---- SimpleMCPTools.call_tool, mcp_agent.py lines 489-504 ----
SimpleRequired ==
    [read_file |-> <<"path">>,
     write_file |-> <<"path", "content">>,
     list_files |-> <<>>,
     create_directory |-> <<"path">>]

SimpleHandled == {Name(w) : w \in DOMAIN SimpleRequired}

\* Mutant: an unknown name raises.
SimpleUnknownRaises(tool_name) ==
    Result("raise", <<"KeyError: ">> \o tool_name, NoCap)

\* Lines 500-501.
SimpleUnknownTool(tool_name) ==
    Result("unknown", <<"unknown tool: ">> \o tool_name, NoCap)

\* Mutant: no except clause.
SimpleFaultPropagates(msg, cap) == Result("raise", msg, cap)

\* Lines 502-504.
SimpleToolFault(msg, cap) == Result("fault", <<"tool call failed: ">> \o msg, cap)

call_tool(tool_name, arguments, env) ==
    IF tool_name \in SimpleHandled
    THEN LET missing == FirstMissing(SimpleRequired[tool_name[1]], arguments) IN
         IF missing # <<>>
         THEN SimpleToolFault(<<SQ>> \o missing \o <<SQ>>, NoCap)
         ELSE IF env.fault # "none"
         THEN SimpleToolFault(<<env.fault>>, tool_name)
         ELSE Result("ok", <<"result of ">> \o tool_name, tool_name)
    ELSE SimpleUnknownTool(tool_name)

\* The names the dispatcher of the client has a branch for, and the keys a
\* branch reads with arguments[key].
Handled(c) ==
    IF c.client = "AIClient" THEN AIHandled
    ELSE IF c.client = "MCPAgent" THEN AgentHandled
    ELSE SimpleHandled

Required(c, tool_name) ==
    IF c.client = "AIClient" THEN AIRequired[tool_name[1]]
    ELSE IF c.client = "MCPAgent" THEN <<>>
    ELSE SimpleRequired[tool_name[1]]

\* A call of SimpleMCPTools.call_tool, as TenderAI makes them.
SimpleCallTool ==
    /\ cfg.client = "SimpleMCPTools"
    /\ cpc = "idle"
    /\ \E tool_name \in ToolNames, arguments \in ArgMaps, env \in Env :
         LET tool_result == call_tool(tool_name, arguments, env) IN
         /\ calls' = Append(calls, [site |-> "direct", name |-> tool_name,
                                    arguments |-> arguments,
                                    result |-> tool_result,
                                        fault |-> Fault(tool_result, env)])
         /\ reply' = IF tool_result.kind = "raise"
                     THEN [kind |-> "raised", text |-> tool_result.text]
                     ELSE [kind |-> "tool", text |-> tool_result.text]
    /\ cpc' = "done"
    /\ UNCHANGED <<cfg, prompt, messages, message, tool_results, requests>>
    /\ UnchangedExtractor
    /\ UNCHANGED <<fanVars, sysVars>>

(***************************************************************************)
(* _process_text_tool_calls: ai_client.py lines 330-368, mcp_agent.py      *)
(* lines 315-354.                                                          *)
(***************************************************************************)
\* The guard of line 332 (AIClient) and of line 317 (MCPAgent).
ExtractorOff(c, text) ==
    \/ c.client = "AIClient" /\ AvailableTools(c) = {}
    \/ ~Contains(text, MARKER)

\* "\n\n**{tool_name} 执行结果：**\n{tool_result}"
ResultBlock(tool_name, tool_result) ==
    <<NL, NL, "**">> \o tool_name \o <<" result:**", NL>> \o tool_result

\* Lines 332-343 (315-328): the guard, re.findall, result_parts = [text].
ExtractBegin ==
    /\ cpc = "extract"
    /\ IF ExtractorOff(cfg, xin) \/ FindAll(xin) = <<>>
       THEN /\ reply' = [kind |-> "text", text |-> xin]
            /\ cpc' = "done"
            /\ UNCHANGED <<matches, xout>>
       ELSE /\ matches' = FindAll(xin)
            /\ xout' = xin
            /\ cpc' = "xloop"
            /\ UNCHANGED reply
    /\ UNCHANGED <<cfg, prompt, messages, message, tool_results, requests, calls,
                   xfrom, xin>>
    /\ UNCHANGED <<fanVars, sysVars>>

\* Lines 345-366 (330-352): one turn of the loop over the matches.  AIClient
\* appends the result to result_parts, which line 368 joins with "\n";
\* MCPAgent replaces the call in the text.
ExtractCall ==
    /\ cpc = "xloop"
    /\ matches # <<>>
    /\ \E env \in Env :
         LET tool_name == Head(matches).name
             args_str == Head(matches).args
             arguments == ParseArguments(args_str)
             tool_result == Dispatch(cfg, tool_name, arguments, env)
             block == ResultBlock(tool_name, tool_result.text)
         IN  /\ calls' = Append(calls, [site |-> "text", name |-> tool_name,
                                        arguments |-> arguments,
                                        result |-> tool_result,
                                        fault |-> Fault(tool_result, env)])
             /\ IF tool_result.kind = "raise"
                THEN /\ Propagate(xfrom, "tool")
                     /\ UNCHANGED <<matches, xout>>
                ELSE /\ matches' = Tail(matches)
                     /\ xout' = IF cfg.client = "AIClient"
                                THEN xout \o <<NL>> \o block
                                ELSE Replace(xout,
                                             TextCall(tool_name[1], args_str),
                                             block)
                     /\ UNCHANGED <<cpc, reply>>
    /\ UNCHANGED <<cfg, prompt, messages, message, tool_results, requests, xfrom, xin>>
    /\ UNCHANGED <<fanVars, sysVars>>

\* Line 368 (354).
ExtractReturn ==
    /\ cpc = "xloop"
    /\ matches = <<>>
    /\ reply' = [kind |-> "text", text |-> xout]
    /\ cpc' = "done"
    /\ UNCHANGED <<cfg, prompt, messages, message, tool_results, requests, calls,
                   xfrom, xin, matches, xout>>
    /\ UNCHANGED <<fanVars, sysVars>>

Extractor == ExtractBegin \/ ExtractCall \/ ExtractReturn

(***************************************************************************)
(* ConversationManager, conversation.py, and TenderAI.process_message,     *)
(* tender_ai.py lines 62-136.  process_message sees of the chat of its     *)
(* agent and of its client what they return, or that they raise.           *)
(***************************************************************************)
DefaultHistory == 100

\* s[-n:] of a list.
LastSlice(s, n) ==
    LET start == IF n > 0 THEN (IF Len(s) > n THEN Len(s) - n ELSE 0)
                 ELSE IF -n < Len(s) THEN -n ELSE Len(s)
    IN  SubSeq(s, start + 1, Len(s))

\* add_message, lines 19-32.
add_message(msgs, limit, m) ==
    LET appended == Append(msgs, m) IN
    IF Len(appended) > limit THEN LastSlice(appended, limit) ELSE appended

\* TenderAI.__init__, lines 25-60: the agent if it is available, and if not
\* an AIClient with the MCP server.
AgentConfig ==
    [client |-> "MCPAgent", api_key |-> <<>>, base_url |-> <<>>,
     mock_mode |-> FALSE, mcp_server |-> TRUE, project_manager |-> TRUE,
     agent |-> TRUE]

TenderAIs ==
    {[mcp_agent |-> AgentConfig, ai_client |-> NoConfig]}
    \cup {[mcp_agent |-> NoConfig, ai_client |-> AIClientInit(config, TRUE)] :
             config \in Credentials}

TenderConfig ==
    [client |-> "TenderAI", api_key |-> <<>>, base_url |-> <<>>,
     mock_mode |-> FALSE, mcp_server |-> TRUE, project_manager |-> TRUE,
     agent |-> FALSE]

SessionMessages ==
    { <<"hello">>, <<"Create project", SP, "n">>, <<"export", SP, "word">> }

\* message.lower() for the words of the messages.
LowerWords(m) ==
    [i \in DOMAIN m |-> IF m[i] = "Create project" THEN "create project"
                        ELSE m[i]]

\* _analyze_intent_simple, lines 138-232: the first list with a keyword
\* that the message contains.
analyze_intent_simple(m) ==
    LET words == {LowerWords(m)[i] : i \in DOMAIN m} IN
    IF words \cap {"create project"} # {} THEN "create_project"
    ELSE IF words \cap {"generate outline", "outline"} # {}
    THEN "generate_outline"
    ELSE IF words \cap {"show", "view"} # {} THEN "view_content"
    ELSE IF words \cap {"export", "word"} # {} THEN "export_document"
    ELSE IF words \cap {"list_files", "read_file"} # {} THEN "use_tools"
    ELSE IF words \cap {"list project"} # {} THEN "list_projects"
    ELSE IF words \cap {"analyze", "pdf"} # {} THEN "analyze_tender"
    ELSE "general_chat"

\* Lines 113-127: the handler of the intent; without one, general chat.
HandlerOf(intent) ==
    IF intent \in {"create_project", "generate_outline", "view_content",
                   "export_document", "list_projects", "use_tools"}
    THEN intent ELSE "general_chat"

\* What chat_sync of the agent and chat of the client do for their caller:
\* a text, a text that tells of a failure, or an exception.
AgentOutcomes ==
    {[kind |-> "text", text |-> <<"hello">>],
     [kind |-> "chat failed", text |-> <<"connection">>],
     [kind |-> "raise", text |-> <<"RuntimeError">>]}

ClientOutcomes ==
    {[kind |-> "text", text |-> <<"hello">>],
     [kind |-> "text", text |-> <<SP>>],
     ChatFailure("connection"),
     [kind |-> "raise", text |-> <<"RuntimeError">>]}

\* What a handler does: it returns its text, or an exception leaves it.
HandlerOutcomes == {"text", "raise"}

NoAnswer == [kind |-> "none", path |-> "none", text |-> <<>>]
Answer(path, text) == [kind |-> "text", path |-> path, text |-> text]

\* Mutant: process_message without its outer except clause.
Uncaught(e) == [kind |-> "raised", path |-> "error", text |-> <<e>>]

\* Lines 134-136.
Caught(e) == Answer("error", <<"error processing message: ", e>>)

\* Lines 62-136: the answer of process_message and the history it leaves,
\* for what the agent (a), the test request of is_available (t), the client
\* (c) and the handler (h) do when they are called.
process_message(se, msgs, limit, m, a, t, c, h) ==
    LET asked == add_message(msgs, limit, Msg("user", m))
        said(path, text) ==
            [answer |-> Answer(path, text),
             history |-> add_message(asked, limit, Msg("assistant", text))]
        handler == HandlerOf(analyze_intent_simple(m))
    IN  IF se.mcp_agent # NoConfig /\ se.mcp_agent.agent /\ a.kind # "raise"
        THEN said("agent", a.text)
        ELSE IF /\ se.ai_client # NoConfig
                /\ t.kind # "raise"
                /\ is_available(se.ai_client, t)
                /\ se.ai_client.mock_mode \/ c.kind # "raise"
        THEN said("ai", IF se.ai_client.mock_mode
                        THEN get_mock_response(m, TRUE) ELSE c.text)
        ELSE IF h = "text"
        THEN said("keyword", <<handler>>)
        ELSE [answer |-> Caught(handler), history |-> asked]

\* A call of add_message on a ConversationManager made by hand.
AddMessage ==
    /\ session.pc = "manager"
    /\ session.count < MaxAdds
    /\ \E role \in {"user", "assistant"}, content \in {<<"x">>, <<"y">>} :
         /\ history' = add_message(history, max_history, Msg(role, content))
         /\ session' = [session EXCEPT
                           !.count = @ + 1,
                           !.added = Append(@, Msg(role, content))]
    /\ UNCHANGED max_history
    /\ UNCHANGED exceptSession

\* A call of process_message.
ProcessMessage ==
    /\ session.pc \in {"idle", "returned"}
    /\ session.count < MaxMessages
    /\ \E m \in SessionMessages, a \in AgentOutcomes, t \in ClientOutcomes,
          c \in ClientOutcomes, h \in HandlerOutcomes :
         LET done == process_message(session, history, max_history,
                                     m, a, t, c, h)
         IN  /\ history' = done.history
             /\ session' = [session EXCEPT
                               !.pc = IF done.answer.kind = "raised"
                                      THEN "crashed" ELSE "returned",
                               !.count = @ + 1,
                               !.before = history,
                               !.message = m,
                               !.answer = done.answer]
    /\ UNCHANGED max_history
    /\ UNCHANGED exceptSession

Session(pc, t) ==
    [pc |-> pc, mcp_agent |-> t.mcp_agent, ai_client |-> t.ai_client,
     count |-> 0, message |-> <<>>, answer |-> NoAnswer, before |-> <<>>,
     added |-> <<>>]

\* TenderAI(config), with ConversationManager().
TenderInit ==
    /\ max_history = DefaultHistory
    /\ history = <<>>
    /\ \E t \in TenderAIs : session = Session("idle", t)

ChatInit ==
    /\ \/ cfg \in Configs /\ SessionIdle
       \/ cfg = TenderConfig /\ TenderInit
    /\ ExchangeIdle
    /\ max_workers = MaxPool
    /\ FanIdle
    /\ subclass = "none"
    /\ RegIdle
    /\ PoolIdle
    /\ FilesIdle
    /\ ProjectsIdle

ChatNext ==
    \/ ChatMock
    \/ ChatBegin
    \/ FirstRequest
    \/ StructuredCall
    \/ SecondRequest
    \/ PlainRequest
    \/ AgentChat
    \/ SimpleCallTool
    \/ ProcessMessage
    \/ ExtractBegin
    \/ ExtractCall
    \/ ExtractReturn

SpecChat == ChatInit /\ [][ChatNext]_vars

(***************************************************************************)
(* _process_text_tool_calls on its own: the texts are drawn from the two    *)
(* families below, the client is one that can reach the function.          *)
(***************************************************************************)
ExtractConfigs ==
    {c \in Configs : /\ c.client \in {"AIClient", "MCPAgent"}
                     /\ ~c.mock_mode
                     /\ c.client = "AIClient" => c.base_url = <<>>
                     /\ c.client = "MCPAgent" => c.agent}

\* The call TOOL_CALL: f(a="1", b="2").
Occurrence ==
    TextCall("f", <<"a", EQ, DQ, "1", DQ, COMMA, SP, "b", EQ, DQ, "2", DQ>>)

ContextTokens == {"w", SP, NL, LP, RP, COMMA, EQ, DQ}
Contexts == SeqsUpTo(ContextTokens, MaxContext)

\* One occurrence of the call, in a text that has the marker nowhere else.
OccurrenceTexts == {pre \o Occurrence \o post : pre \in Contexts, post \in Contexts}

\* One call with one key=value segment.
KeyTexts == {<<"k">>, <<DQ, "k", DQ>>, <<SQ, "k">>}
ValueTokens == {DQ, SQ, "v", SP, EQ}
ValueTexts == SeqsUpTo(ValueTokens, MaxValue)
SegmentTexts ==
    {TextCall("f", key \o <<EQ>> \o value) : key \in KeyTexts, value \in ValueTexts}

\* A call of f with segments of which some have no "=", and a call of g
\* after it.
BareSegment == <<"x">>
SegmentA == <<"a", EQ, "1">>
SegmentB == <<"b", EQ, DQ, "2", DQ>>
SegmentLists ==
    SeqsUpTo({BareSegment, SegmentA, SegmentB}, MaxSegments) \ {<<>>}

\* sep.join(parts)
RECURSIVE Join(_, _)
Join(parts, sep) ==
    IF parts = <<>> THEN <<>>
    ELSE IF Len(parts) = 1 THEN parts[1]
    ELSE parts[1] \o sep \o Join(Tail(parts), sep)

FollowingCall == TextCall("g", <<"c", EQ, "3">>)

MixedText(segs) ==
    TextCall("f", Join(segs, <<COMMA, SP>>)) \o <<SP>> \o FollowingCall

MixedTexts == {MixedText(segs) : segs \in SegmentLists}

\* A piece that starts with the marker and is not a call (no parentheses,
\* no closing parenthesis, no name), a separator, and the call of g.
MalformedPieces ==
    { <<MARKER, SP, "f">>,
      <<MARKER, SP, "f", LP, "a", EQ, DQ, "1", DQ>>,
      <<MARKER, SP, LP, RP>> }

MalformedText(piece, sep) == piece \o <<sep>> \o FollowingCall

MalformedTexts ==
    {MalformedText(piece, sep) : piece \in MalformedPieces, sep \in WhiteSpace}

\* Texts in which the pattern cannot match: no ")" at all, no "(" at all,
\* a newline between the parentheses, no name, no marker.
NoCallTexts ==
    SeqsUpTo({MARKER, SP, "f", LP}, MaxNoCall)
        \cup SeqsUpTo({MARKER, "f", RP, NL}, MaxNoCall)
        \cup { <<MARKER, SP, "f", LP, NL, RP>>,
               <<MARKER, SP, LP, RP>>,
               <<MARKER, ".", "f", LP, RP>>,
               <<"call", SP, "f", LP, RP>> }

\* Calls as the instructions of the clients show them.
AdvertisedTexts ==
    { TextCall("write_file", <<"path", EQ, DQ, "p", DQ, COMMA, SP,
                               "content", EQ, DQ, "c", DQ>>),
      TextCall("read_file", <<"path", EQ, DQ, "p", DQ>>),
      TextCall("create_directory", <<"path", EQ, DQ, "d", DQ>>) }

ExtractTexts ==
    OccurrenceTexts \cup SegmentTexts \cup MixedTexts \cup MalformedTexts
        \cup NoCallTexts \cup AdvertisedTexts

ExtractInit ==
    /\ cfg \in ExtractConfigs
    /\ cpc = "extract"
    /\ xfrom = "direct"
    /\ xin \in ExtractTexts
    /\ prompt = <<>>
    /\ messages = <<>>
    /\ message = NoMessage
    /\ tool_results = <<>>
    /\ requests = <<>>
    /\ calls = <<>>
    /\ matches = <<>>
    /\ xout = <<>>
    /\ reply = NoReply
    /\ max_workers = MaxPool
    /\ FanIdle
    /\ SysIdle

SpecExtract == ExtractInit /\ [][Extractor]_vars

(***************************************************************************)
(* The tool registry of BaseMCPTools, base.py.                             *)
(***************************************************************************)
\* A tool function: its __name__ and which function it is.
Func(fname, id) == [fname |-> fname, id |-> id]

Funcs == {Func("add", "mine"), Func("add", "other"), Func("f", "f")}

\* The name argument of register_tool: None, empty, a name.
NoName == "None"
RegNames == {NoName, "", "add", "g"}

\* MCPMathTools._register_tools, lines 181-204: the four functions, stored
\* by self._tools_registry.update.
MathTools ==
    <<Func("add", "math"), Func("multiply", "math"),
      Func("subtract", "math"), Func("divide", "math")>>

\* Mutant: a name that is registered keeps its function.
KeepFirst(registry, tool_name, func) ==
    IF tool_name \in DOMAIN registry THEN registry
    ELSE [k \in DOMAIN registry \cup {tool_name} |->
            IF k = tool_name THEN func ELSE registry[k]]

\* self._tools_registry[tool_name] = func
RegistrySet(registry, tool_name, func) ==
    [k \in DOMAIN registry \cup {tool_name} |->
        IF k = tool_name THEN func ELSE registry[k]]

RECURSIVE RegistryUpdate(_, _)
RegistryUpdate(registry, funcs) ==
    IF funcs = <<>> THEN registry
    ELSE RegistryUpdate(RegistrySet(registry, Head(funcs).fname, Head(funcs)),
                        Tail(funcs))

Registration(by, tool_name, func, outcome) ==
    [by |-> by, tool_name |-> tool_name, func |-> func, outcome |-> outcome]

RegistrationsBy(by) == SelectSeq(registered, LAMBDA r : r.by = by)

\* create_mcp_server, lines 59-63: the FastMCP object is made and the
\* subclass registers its tools.
CreateMcpServer ==
    /\ subclass # "none"
    /\ Len(RegistrationsBy("_register_tools")) < MaxCreates * Len(MathTools)
    /\ fastmcp' = TRUE
    /\ IF subclass = "MCPMathTools"
       THEN /\ tools_registry' = RegistryUpdate(tools_registry, MathTools)
            /\ registered' = registered \o
                   [i \in DOMAIN MathTools |->
                       Registration("_register_tools", MathTools[i].fname,
                                    MathTools[i], "ok")]
       ELSE UNCHANGED <<tools_registry, registered>>
    /\ UNCHANGED subclass
    /\ UNCHANGED exceptRegistry

\* register_tool, lines 70-77.  FastMCP.tool() keeps the first function of
\* a name and warns about the others.
RegisterTool ==
    /\ subclass # "none"
    /\ Len(RegistrationsBy("register_tool")) < MaxRegistrations
    /\ \E func \in Funcs, name \in RegNames :
         LET tool_name == IF name \in {NoName, ""} THEN func.fname ELSE name IN
         IF ~fastmcp
         THEN /\ registered' =
                    Append(registered,
                           Registration("register_tool", tool_name, func,
                                        "RuntimeError"))
              /\ UNCHANGED tools_registry
         ELSE /\ tools_registry' = RegistrySet(tools_registry, tool_name, func)
              /\ registered' =
                    Append(registered,
                           Registration("register_tool", tool_name, func, "ok"))
    /\ UNCHANGED <<subclass, fastmcp>>
    /\ UNCHANGED exceptRegistry

\* get_tools, lines 146-148.
get_tools == tools_registry

\* get_tool_by_name, lines 150-152: dict.get, None for a missing name.
get_tool_by_name(name) ==
    IF name \in DOMAIN tools_registry THEN tools_registry[name] ELSE NoName

RegistryInit ==
    /\ subclass \in {"MCPMathTools", "BaseMCPTools"}
    /\ RegIdle
    /\ PoolIdle
    /\ FilesIdle
    /\ ProjectsIdle
    /\ SessionIdle
    /\ max_workers = MaxPool
    /\ FanIdle
    /\ ChatIdle

RegistryNext == CreateMcpServer \/ RegisterTool

SpecRegistry == RegistryInit /\ [][RegistryNext]_vars

(***************************************************************************)
(* FileTools, file_tools.py, on a POSIX file system.  A path is the         *)
(* sequence of its names, a text the sequence of its tokens.                *)
(***************************************************************************)
CR == "\r"
UP == ".."
NoDir == <<"None">>
ProjectDir == <<"proj">>

Dir == [kind |-> "dir"]
File(data) == [kind |-> "file", data |-> data]

\* What the kernel makes of a path: ".." steps back to the parent.
RECURSIVE Normalize(_, _)
Normalize(done, rest) ==
    IF rest = <<>> THEN done
    ELSE IF Head(rest) = UP
    THEN Normalize(IF done = <<>> THEN <<>> ELSE SubSeq(done, 1, Len(done) - 1),
                   Tail(rest))
    ELSE Normalize(Append(done, Head(rest)), Tail(rest))

\* Lines 28-30: a relative path is taken from the project directory when
\* there is one, from the working directory (the root here) otherwise.
Resolve(dir, path) ==
    Normalize(<<>>, IF dir = NoDir THEN path ELSE dir \o path)

IsDir(disk, q) == q \in DOMAIN disk /\ disk[q].kind = "dir"
IsFile(disk, q) == q \in DOMAIN disk /\ disk[q].kind = "file"
Prefixes(q) == {SubSeq(q, 1, n) : n \in 0..Len(q)}

\* Path.mkdir(parents=True, exist_ok=True): possible unless a file is in
\* the way.
CanMkdir(disk, q) == \A a \in Prefixes(q) : ~IsFile(disk, a)

Mkdir(disk, q) ==
    [a \in DOMAIN disk \cup Prefixes(q) |->
        IF a \in DOMAIN disk THEN disk[a] ELSE Dir]

\* open(file_path, 'r') with newline=None: "\r\n" and "\r" are read as
\* "\n".
RECURSIVE UniversalNewlines(_)
UniversalNewlines(data) ==
    IF data = <<>> THEN <<>>
    ELSE IF Head(data) = CR
    THEN <<NL>> \o UniversalNewlines(
             IF Len(data) >= 2 /\ data[2] = NL
             THEN SubSeq(data, 3, Len(data)) ELSE Tail(data))
    ELSE <<Head(data)>> \o UniversalNewlines(Tail(data))

RelativePaths ==
    { <<"t.txt">>, <<"d", "t.txt">>, <<"d">>, <<UP, "t.txt">>, <<>> }

FileContents ==
    { <<>>, <<"x">>, <<"x", NL, "y", NL>>, <<"x", CR, NL, "y">> }

FileOp(op, path, content, result) ==
    [op |-> op, path |-> path, content |-> content, result |-> result]

\* write_file, lines 38-55.
WriteFile ==
    /\ Len(fops) < MaxFileOps
    /\ \E path \in RelativePaths, content \in FileContents :
         LET file_path == Resolve(current_project_dir, path)
             parent == IF file_path = <<>> THEN <<>>
                       ELSE SubSeq(file_path, 1, Len(file_path) - 1)
         IN  IF ~CanMkdir(fs, parent)
             THEN /\ fops' = Append(fops, FileOp("write_file", path, content,
                                                 "False"))
                  /\ UNCHANGED fs
             ELSE IF IsDir(Mkdir(fs, parent), file_path)
             THEN /\ fops' = Append(fops, FileOp("write_file", path, content,
                                                 "False"))
                  /\ fs' = Mkdir(fs, parent)
             ELSE /\ fops' = Append(fops, FileOp("write_file", path, content,
                                                 "True"))
                  /\ fs' = [a \in DOMAIN Mkdir(fs, parent) \cup {file_path} |->
                              IF a = file_path THEN File(content)
                              ELSE Mkdir(fs, parent)[a]]
    /\ UNCHANGED current_project_dir
    /\ UNCHANGED exceptFiles

\* read_file, lines 25-36: the text of the file, or the exception of open.
ReadFile ==
    /\ Len(fops) < MaxFileOps
    /\ \E path \in RelativePaths :
         LET file_path == Resolve(current_project_dir, path) IN
         fops' = Append(fops,
                        IF IsFile(fs, file_path)
                        THEN FileOp("read_file", path,
                                    UniversalNewlines(fs[file_path].data),
                                    "returned")
                        ELSE FileOp("read_file", path, <<>>, "raised"))
    /\ UNCHANGED <<current_project_dir, fs>>
    /\ UNCHANGED exceptFiles

\* create_directory, lines 79-91.
CreateDirectory ==
    /\ Len(fops) < MaxFileOps
    /\ \E path \in RelativePaths :
         LET dir_path == Resolve(current_project_dir, path) IN
         IF CanMkdir(fs, dir_path)
         THEN /\ fs' = Mkdir(fs, dir_path)
              /\ fops' = Append(fops, FileOp("create_directory", path, <<>>,
                                             "True"))
         ELSE /\ fops' = Append(fops, FileOp("create_directory", path, <<>>,
                                             "False"))
              /\ UNCHANGED fs
    /\ UNCHANGED current_project_dir
    /\ UNCHANGED exceptFiles

\* FileTools() and set_project_dir, lines 17-22, on a disk that has the
\* project directory.
FilesInit ==
    /\ current_project_dir = ProjectDir
    /\ fs = Mkdir([q \in {<<>>} |-> Dir], ProjectDir)
    /\ fops = <<>>
    /\ subclass = "none"
    /\ RegIdle
    /\ PoolIdle
    /\ ProjectsIdle
    /\ SessionIdle
    /\ max_workers = MaxPool
    /\ FanIdle
    /\ ChatIdle

FilesNext == WriteFile \/ ReadFile \/ CreateDirectory

SpecFiles == FilesInit /\ [][FilesNext]_vars

(***************************************************************************)
(* ProjectManager, project_manager.py.  A name is the sequence of its      *)
(* characters, and so is every name of a path here.                        *)
(***************************************************************************)
NameLimit == 50

Alnum == {"a", "b", "1"}
ProjectNames ==
    { <<"a">>, <<"a", " ", "b">>, <<"a", "_", "b">>, <<"a", "/", "b">>,
      <<"!">>, <<>> }

\* _sanitize_name, lines 321-326.
Sanitize(name) ==
    LET replaced == [i \in DOMAIN name |->
                        IF name[i] \in {" ", "/", "\\"} THEN "_" ELSE name[i]]
        kept == SelectSeq(replaced, LAMBDA c : c \in Alnum \cup {"_", "-"})
    IN  SubSeq(kept, 1, IF Len(kept) < NameLimit THEN Len(kept) ELSE NameLimit)

\* config.workspace_dir, which exists once it was read.
Workspace == << <<"ws">> >>

\* workspace_dir / name: an empty name is the directory itself.
Under(dir, name) == IF name = <<>> THEN dir ELSE Append(dir, name)

ProjectJson == <<"project.json">>
Directories ==
    << <<"sections">>, <<"assets">>, <<"output">>, <<"backup">>, <<"temp">> >>

PmState == [fs |-> fs, current_project |-> current_project,
            current_project_name |-> current_project_name]

NoError == [type |-> "none", msg |-> <<>>]
ValueError(msg) == [type |-> "ValueError", msg |-> msg]
Outcome(st, error) == [st |-> st, error |-> error]

\* Mutant: the sections directory is not made.
WithoutSections(disk, project_dir) == Mkdir(disk, project_dir)

\* Lines 41-54: the project directory and the five directories in it.
MakeDirectories(disk, project_dir) ==
    [a \in DOMAIN Mkdir(disk, project_dir)
           \cup {Append(project_dir, Directories[i]) : i \in DOMAIN Directories}
        |-> IF a \in DOMAIN Mkdir(disk, project_dir)
            THEN Mkdir(disk, project_dir)[a] ELSE Dir]

\* create_project, lines 31-108; id is the uuid of the project.
create_project(st, name, id) ==
    LET project_dir == Under(Workspace, Sanitize(name)) IN
    IF project_dir \in DOMAIN st.fs
    THEN Outcome(st, ValueError(<<"project ">> \o name \o <<" exists">>))
    ELSE LET made == MakeDirectories(st.fs, project_dir)
             files == {Append(project_dir, ProjectJson),
                       Append(project_dir, <<"README.md">>)}
         IN  Outcome([fs |-> [a \in DOMAIN made \cup files |->
                                 IF a = Append(project_dir, ProjectJson)
                                 THEN File([name |-> name, id |-> id])
                                 ELSE IF a \in files THEN File(<<"readme">>)
                                 ELSE made[a]],
                      current_project |-> project_dir,
                      current_project_name |-> name],
                     NoError)

\* load_project, lines 110-137, of a path that exists or not.
load_project(st, project_dir) ==
    IF project_dir \notin DOMAIN st.fs
    THEN Outcome(st, ValueError(<<"no such project">>))
    ELSE IF ~IsFile(st.fs, Append(project_dir, ProjectJson))
    THEN Outcome(st, ValueError(<<"not a project directory">>))
    ELSE Outcome([fs |-> st.fs,
                  current_project |-> project_dir,
                  current_project_name |->
                      st.fs[Append(project_dir, ProjectJson)].data.name],
                 NoError)

\* switch_project, lines 139-146.
switch_project(st, name) ==
    LET project_dir == Under(Workspace, Sanitize(name)) IN
    IF project_dir \notin DOMAIN st.fs
    THEN Outcome(st, ValueError(<<"no such project: ">> \o name))
    ELSE load_project(st, project_dir)

\* list_projects, lines 148-173: one entry for each directory of the
\* workspace that holds a project.json.
list_projects(st) ==
    LET found == {d \in DOMAIN st.fs :
                     /\ Len(d) = Len(Workspace) + 1
                     /\ SubSeq(d, 1, Len(Workspace)) = Workspace
                     /\ IsDir(st.fs, d)
                     /\ IsFile(st.fs, Append(d, ProjectJson))}
    IN  [d \in found |->
            [name |-> st.fs[Append(d, ProjectJson)].data.name,
             is_current |-> d = st.current_project]]

(***************************************************************************)
(* The project and file tools of MCPAgent: the functions that               *)
(* _register_tools gives to the agent (mcp_agent.py lines 101-293) and the  *)
(* branches of _call_tool_directly (lines 356-467).  Each returns the text  *)
(* of the result and the state it leaves.                                   *)
(***************************************************************************)
ToolOutcome(text, st) == [text |-> text, st |-> st]

\* workspace_dir / path, the path given by its names.
FullPath(path) == Workspace \o path

\* Path.read_text of workspace_dir / path.
ReadText(st, path) ==
    IF IsFile(st.fs, FullPath(path))
    THEN [error |-> "none",
          text |-> UniversalNewlines(st.fs[FullPath(path)].data)]
    ELSE [error |-> "IsADirectoryError", text |-> <<>>]

PathText(path) == <<"path">> \o path

ProjectListing(st) ==
    IF DOMAIN list_projects(st) = {} THEN ToolOutcome(<<"no projects">>, st)
    ELSE ToolOutcome(<<"projects: ", list_projects(st)>>, st)

\* Lines 113-128, 131-150, 152-162, 199-210.
RegisteredTool(st, tool_name, arguments, id) ==
    IF tool_name = <<"create_project">>
    THEN LET name == arguments[<<"name">>]
             made == create_project(st, name, id)
         IN  IF made.error = NoError
             THEN ToolOutcome(<<"project created: ">> \o name, made.st)
             ELSE IF " exists" \in Range(made.error.msg)
             THEN LET switched == switch_project(st, name) IN
                  IF switched.error = NoError
                  THEN ToolOutcome(<<"project exists, switched to: ">> \o name,
                                   switched.st)
                  ELSE ToolOutcome(<<"project exists, switch failed: ">> \o name,
                                   st)
             ELSE ToolOutcome(<<"create failed: ">> \o made.error.msg, st)
    ELSE IF tool_name = <<"list_projects">>
    THEN ProjectListing(st)
    ELSE IF tool_name = <<"switch_project">>
    THEN LET name == arguments[<<"name">>]
             switched == switch_project(st, name)
         IN  IF switched.error = NoError
             THEN ToolOutcome(<<"switched to: ">> \o name, switched.st)
             ELSE ToolOutcome(<<"switch failed: ">> \o switched.error.msg, st)
    ELSE LET path == arguments[<<"path">>] IN
         IF FullPath(path) \notin DOMAIN st.fs
         THEN ToolOutcome(<<"no such file: ">> \o PathText(path), st)
         ELSE IF ReadText(st, path).error # "none"
         THEN ToolOutcome(<<"read failed: ", ReadText(st, path).error>>, st)
         ELSE ToolOutcome(<<"content of ">> \o PathText(path) \o <<": ">>
                              \o ReadText(st, path).text, st)

\* Lines 359-365, 367-381, 383-389, 416-426 and the except clause of
\* lines 465-467.
DirectTool(st, tool_name, arguments, id) ==
    IF tool_name = <<"create_project">>
    THEN LET name == arguments[<<"name">>]
             made == create_project(st, name, id)
         IN  IF made.error = NoError
             THEN ToolOutcome(<<"project created: ">> \o name, made.st)
             ELSE ToolOutcome(<<"tool call failed: ">> \o made.error.msg, st)
    ELSE IF tool_name = <<"list_projects">>
    THEN ProjectListing(st)
    ELSE IF tool_name = <<"switch_project">>
    THEN LET name == arguments[<<"name">>]
             switched == switch_project(st, name)
         IN  IF name = <<>>
             THEN ToolOutcome(<<"no project manager or empty name">>, st)
             ELSE IF switched.error = NoError
             THEN ToolOutcome(<<"switched to: ">> \o name, switched.st)
             ELSE ToolOutcome(<<"tool call failed: ">> \o switched.error.msg, st)
    ELSE LET path == arguments[<<"path">>] IN
         IF path = <<>>
         THEN ToolOutcome(<<"empty path">>, st)
         ELSE IF FullPath(path) \notin DOMAIN st.fs
         THEN ToolOutcome(<<"no such file: ">> \o PathText(path), st)
         ELSE IF ReadText(st, path).error # "none"
         THEN ToolOutcome(<<"tool call failed: ", ReadText(st, path).error>>,
                          st)
         ELSE ToolOutcome(<<"content of ">> \o PathText(path) \o <<": ">>
                              \o ReadText(st, path).text, st)

\* The tools both call sites have, with the argument maps given to them.
ProjectToolNames ==
    {Name(w) : w \in {"create_project", "list_projects", "switch_project",
                      "read_file"}}

FilePaths ==
    { <<>>, << <<"a">> >>, << <<"a">>, <<"README.md">> >>, << <<"nofile">> >> }

ProjectToolArguments(tool_name) ==
    IF tool_name \in {<<"create_project">>, <<"switch_project">>}
    THEN {ArgSet(NoArgs, <<"name">>, name) : name \in ProjectNames}
    ELSE IF tool_name = <<"read_file">>
    THEN {ArgSet(NoArgs, <<"path">>, path) : path \in FilePaths}
    ELSE {NoArgs}

ProjectOp(op, arguments, result) ==
    [op |-> op, arguments |-> arguments, result |-> result]

SetPmState(st) ==
    /\ fs' = st.fs
    /\ current_project' = st.current_project
    /\ current_project_name' = st.current_project_name

\* A call of ProjectManager.create_project.
CreateProject ==
    /\ Len(pops) < MaxProjectOps
    /\ \E name \in ProjectNames :
         LET made == create_project(PmState, name, Len(pops)) IN
         /\ SetPmState(made.st)
         /\ pops' = Append(pops, ProjectOp("create_project", name,
                                           made.error.type))
    /\ UNCHANGED exceptProjects

\* A call of ProjectManager.switch_project.
SwitchProject ==
    /\ Len(pops) < MaxProjectOps
    /\ \E name \in ProjectNames :
         LET switched == switch_project(PmState, name) IN
         /\ SetPmState(switched.st)
         /\ pops' = Append(pops, ProjectOp("switch_project", name,
                                           switched.error.type))
    /\ UNCHANGED exceptProjects

\* A call of a tool function by the agent, or of _call_tool_directly.
AgentToolCall ==
    /\ Len(pops) < MaxProjectOps
    /\ \E site \in {"registered", "direct"}, tool_name \in ProjectToolNames :
         \E arguments \in ProjectToolArguments(tool_name) :
            LET out == IF site = "registered"
                       THEN RegisteredTool(PmState, tool_name, arguments,
                                           Len(pops))
                       ELSE DirectTool(PmState, tool_name, arguments,
                                       Len(pops))
            IN  /\ SetPmState(out.st)
                /\ pops' = Append(pops, ProjectOp(site, tool_name, out.text))
    /\ UNCHANGED exceptProjects

\* ProjectManager(config) on a workspace without projects.
ProjectsInit ==
    /\ fs = Mkdir([q \in {<<>>} |-> Dir], Workspace)
    /\ ProjectsIdle
    /\ current_project_dir = <<"None">>
    /\ fops = <<>>
    /\ subclass = "none"
    /\ RegIdle
    /\ PoolIdle
    /\ SessionIdle
    /\ max_workers = MaxPool
    /\ FanIdle
    /\ ChatIdle

ProjectsNext == CreateProject \/ SwitchProject \/ AgentToolCall

SpecProjects == ProjectsInit /\ [][ProjectsNext]_vars

(***************************************************************************)
(* A ConversationManager made by hand, or the one of a TenderAI.           *)
(***************************************************************************)
SessionInit ==
    /\ \/ /\ cfg = TenderConfig
          /\ TenderInit
       \/ /\ cfg = NoConfig
          /\ max_history \in 0..MaxHistory
          /\ history = <<>>
          /\ session = Session("manager",
                               [mcp_agent |-> NoConfig, ai_client |-> NoConfig])
    /\ ExchangeIdle
    /\ subclass = "none"
    /\ RegIdle
    /\ PoolIdle
    /\ FilesIdle
    /\ ProjectsIdle
    /\ max_workers = MaxPool
    /\ FanIdle

SessionNext == AddMessage \/ ProcessMessage

SpecSession == SessionInit /\ [][SessionNext]_vars

(***************************************************************************)
(* Claims on the fan-out engine.                                           *)
(***************************************************************************)
ReportReturned == report.kind = "report"
TimedOut == ReportReturned /\ "error" \in DOMAIN report
HasRate(r) == "success_rate" \in DOMAIN r
KeyOf(i) == task_list[i].key
KeysOf(S) == {KeyOf(i) : i \in S}
OwnEntry(i) ==
    /\ KeyOf(i) \in DOMAIN report.results
    /\ report.results[KeyOf(i)] = OutcomeEntry(task_list[i])
AllSucceed == \A i \in Futures : task_list[i].outcome = "ok"

\* C3: fault isolation. In a report of a batch that was collected whole,
\* every task that raised is recorded with success = false and its own
\* error, every task that succeeded is recorded with success = true, and
\* no future was cancelled.
C3_FaultIsolation ==
    (ReportReturned /\ ~TimedOut) =>
        \A i \in Futures : fstate[i] # "cancelled" /\ OwnEntry(i)

\* C4: when every task of the batch was delivered within the timeout, the
\* report has completed = total and no timeout mark; when moreover all N
\* tasks succeed and the pool has at least N workers, completed = N and
\* success_rate = N/N = 1.0.
C4_AllFinishInTime ==
    (ReportReturned /\ collected = Futures) =>
        /\ report.completed = Total
        /\ ~TimedOut
        /\ (AllSucceed /\ max_workers >= Total) =>
              /\ HasRate(report)
              /\ report.success_rate = <<Total, Total>>

\* C5: when the deadline elapses before every task was delivered, the call
\* returns a report (it does not raise) that is marked timed out, has
\* completed < total, and whose results hold the outcome of exactly the tasks
\* delivered before the deadline: one entry per such task, the task's own
\* outcome, and no entry of another task.
C5_TimeoutPartialReport ==
    (fpc \in {"returned", "raised"} /\ deadlinePassed /\ collected # Futures) =>
        /\ ReportReturned
        /\ TimedOut
        /\ report.completed < Total
        /\ report.completed = Cardinality(collected)
        /\ Cardinality(DOMAIN report.results) = Cardinality(collected)
        /\ DOMAIN report.results = KeysOf(collected)
        /\ \A i \in collected : OwnEntry(i)

\* C6: every report of a non-empty batch, complete or timed out, has a
\* success_rate field, equal to the number of recorded successes over the
\* size of the batch.
C6_SuccessRateAlways ==
    (ReportReturned /\ Total > 0) =>
        /\ HasRate(report)
        /\ report.success_rate = <<CountSuccess(report.results), Total>>

\* C7: in every report there is exactly one entry of results for each task
\* that was delivered in time, holding that task's outcome, and none for a
\* task that was not; also when two tasks of the batch have the same str().
C7_OneOutcomePerTask ==
    ReportReturned =>
        /\ Cardinality(DOMAIN report.results) = Cardinality(collected)
        /\ DOMAIN report.results = KeysOf(collected)
        /\ \A i \in collected : OwnEntry(i)

\* C8: the deadline ends the waiting only. No future ever goes back to the
\* queue or is cancelled, no task function is started twice, and after a
\* timed-out report every task of the batch is still run, once, to its end.
C8_Step ==
    \A i \in Futures \cap DOMAIN fstate' :
        /\ fstate[i] = "queued" => fstate'[i] \in {"queued", "running"}
        /\ fstate[i] = "running" => fstate'[i] \in {"running", "done"}
        /\ fstate[i] = "done" => fstate'[i] = "done"
        /\ runs'[i] <= 1

AllRanOnce == \A i \in Futures : fstate[i] = "done" /\ runs[i] = 1

C8_TimeoutCancelsWaitingOnly ==
    /\ [][fpc # "idle" => C8_Step]_vars
    /\ [](TimedOut => <>AllRanOnce)

\* A timed-out report was returned with a task still queued and another still
\* running, and all of them have since run to their end.
C8_Witness ==
    /\ TimedOut
    /\ \E i, j \in outstanding : runs[i] = 1 /\ i # j
    /\ AllRanOnce


(***************************************************************************)
(* Claims on the dispatchers and the text-call extractor.                  *)
(***************************************************************************)
Unknown(call) == call.name \notin Handled(cfg)
Returned == cpc = "done" /\ reply.kind \notin {"none", "raised"}

\* What the dispatcher of the client answers to a name it has no branch for.
NotFound(tool_name) ==
    IF cfg.client = "AIClient" THEN AIUnknownTool(tool_name)
    ELSE IF cfg.client = "MCPAgent" THEN AgentUnknownTool(tool_name)
    ELSE SimpleUnknownTool(tool_name)

C1_Result ==
    /\ reply.kind # "raised"
    /\ \A i \in DOMAIN calls :
         Unknown(calls[i]) =>
            /\ calls[i].result.kind = "unknown"
            /\ calls[i].result.cap = NoCap
            /\ calls[i].result = NotFound(calls[i].name)

\* The step that dispatches a call of an unhandled name leaves the exchange
\* where it was, in its loop over the calls, or ends it with a reply.
C1_Step ==
    (Len(calls') = Len(calls) + 1 /\ calls'[Len(calls')].name \notin Handled(cfg))
        => \/ cpc' = cpc
           \/ cpc' = "done" /\ reply'.kind = "tool"

\* C1: a call of a name the dispatcher does not handle, whatever its
\* arguments, returns the unknown-tool result and does not raise, invokes no
\* capability, and the exchange it is part of goes on and ends with a reply
\* returned.
C1_UnknownToolNotFound ==
    /\ [] C1_Result
    /\ [] (cpc = "done" => Returned)
    /\ [][C1_Step]_vars

C1_Witness ==
    /\ Returned
    /\ cfg.client = "AIClient"
    /\ \E i, j \in DOMAIN calls :
         /\ Unknown(calls[i]) /\ calls[i].site = "structured"
         /\ calls[i].arguments # NoArgs
         /\ Unknown(calls[j]) /\ calls[j].site = "text"

\* The fault of a call: the capability it invoked raised, or a key its
\* branch reads with arguments[key] is missing.
MissingKey(call) ==
    IF call.name \in Handled(cfg) /\ (cfg.client = "AIClient" => cfg.mcp_server)
    THEN FirstMissing(Required(cfg, call.name), call.arguments)
    ELSE <<>>

Raised(call) == call.result.cap # NoCap /\ call.fault # "none"

\* C2: a fault raised while a resolved tool runs, a missing required key
\* included, is caught in the dispatcher and becomes a failure result that
\* carries the description of the fault; none leaves the dispatcher.
C2_FaultsCaught ==
    /\ reply.kind # "raised"
    /\ \A i \in DOMAIN calls :
         LET call == calls[i] IN
         /\ call.result.kind # "raise"
         /\ Raised(call) =>
               /\ call.result.kind = "fault"
               /\ call.result.text[Len(call.result.text)] = call.fault
         /\ MissingKey(call) # <<>> =>
               /\ call.result.kind = "fault"
               /\ call.result.cap = NoCap
               /\ Contains(call.result.text, MissingKey(call)[1])

C2_Witness ==
    /\ Returned
    /\ \E i, j \in DOMAIN calls :
         /\ Raised(calls[i])
         /\ MissingKey(calls[j]) # <<>>

\* The registry of the client has tools to call.
ToolsRegistered == cfg.client = "AIClient" => AvailableTools(cfg) # {}

Before(text) == SubSeq(text, 1, FirstIndex(text, MARKER) - 1)
After(text) ==
    SubSeq(text, FirstIndex(text, MARKER) + Len(Occurrence), Len(text))

OccurrenceArguments ==
    ArgSet(ArgSet(NoArgs, <<"a">>, <<"1">>), <<"b">>, <<"2">>)

\* The text outside the occurrence is in the returned text as it was:
\* AIClient returns the whole text with the results after it, MCPAgent the
\* text with the result in the place of the occurrence.
OutsideUnchanged ==
    IF cfg.client = "AIClient"
    THEN /\ Len(reply.text) > Len(xin)
         /\ SubSeq(reply.text, 1, Len(xin)) = xin
    ELSE reply.text = Before(xin)
                      \o ResultBlock(<<"f">>, calls[1].result.text)
                      \o After(xin)

OneDispatch ==
    /\ Len(calls) = 1
    /\ calls[1].name = <<"f">>
    /\ calls[1].arguments = OccurrenceArguments
    /\ reply.kind = "text"
    /\ OutsideUnchanged

OneLayer(s) ==
    IF Len(s) >= 2 /\ s[1] \in Quotes /\ s[Len(s)] = s[1]
    THEN SubSeq(s, 2, Len(s) - 1) ELSE s

SegmentOf(text) == SubSeq(text, 5, Len(text) - 1)
KeyOfSegment(text) ==
    SubSeq(SegmentOf(text), 1, FirstIndex(SegmentOf(text), EQ) - 1)
ValueOfSegment(text) ==
    SubSeq(SegmentOf(text), FirstIndex(SegmentOf(text), EQ) + 1,
           Len(SegmentOf(text)))

\* C10: the key and the value of a segment, cut at its first "=", lose
\* exactly one layer of matching quotes: an unquoted one is kept, one in a
\* matching pair of quotes loses that pair only, inner and unmatched quotes
\* stay.
C10_OneLayerOfMatchingQuotes ==
    (xin \in SegmentTexts /\ calls # <<>>) =>
        calls[1].arguments =
            ArgSet(NoArgs,
                   OneLayer(Strip(KeyOfSegment(xin), WhiteSpace)),
                   OneLayer(Strip(ValueOfSegment(xin), WhiteSpace)))


\* The argument map of the segments that have an "=".
ExpectedOfSegments(segs) ==
    [k \in {<<"a">> : i \in {j \in DOMAIN segs : segs[j] = SegmentA}}
           \cup {<<"b">> : i \in {j \in DOMAIN segs : segs[j] = SegmentB}}
       |-> IF k = <<"a">> THEN <<"1">> ELSE <<"2">>]

C12_MalformedSkippedRestDispatched ==
    (xin \in MalformedTexts /\ ToolsRegistered /\ cpc = "done") =>
        /\ Len(calls) = 1
        /\ calls[1].name = <<"g">>
        /\ calls[1].arguments = ArgSet(NoArgs, <<"c">>, <<"3">>)


\* C13: on a text without a conforming occurrence the extractor dispatches
\* nothing and returns the text as it was given.
C13_NoOccurrenceUnchanged ==
    xin \in NoCallTexts =>
        /\ calls = <<>>
        /\ cpc = "done" => reply = [kind |-> "text", text |-> xin]

C13_Witness ==
    /\ xin = <<MARKER, SP, "f", LP>>
    /\ ToolsRegistered
    /\ cpc = "done"
    /\ calls = <<>>


\* C14: when the first response has no structured call and no textual call,
\* chat returns its content token for token, white space at the ends
\* included, and makes no second request.
C14_RoundTripIdentity ==
    ( /\ cfg.client = "AIClient"
      /\ cpc = "done"
      /\ xfrom = "first"
      /\ message.tool_calls = <<>>
      /\ FindAll(message.content.text) = <<>> ) =>
        /\ reply = [kind |-> "text", text |-> message.content.text]
        /\ Len(requests) = 1


\* The requests of the exchange made by the continuation of lines 290-295.
SecondRequests == {k \in DOMAIN requests : requests[k].site = "second"}

StructuredCalls == SelectSeq(calls, LAMBDA c : c.site = "structured")

\* The text of the tool turn of a dispatched call.
TurnOf(call) ==
    <<"tool ">> \o call.name \o <<" result:", NL>> \o call.result.text

C15_Sent ==
    \A k \in SecondRequests :
        LET sent == requests[k].messages
            original == requests[1].messages
            n == Len(message.tool_calls)
            base == Len(original)
        IN  /\ k = 2
            /\ n >= 1
            /\ Len(StructuredCalls) = n
            /\ Len(sent) = base + 1 + n
            /\ SubSeq(sent, 1, base) = original
            /\ sent[base + 1].role = "assistant"
            /\ \A i \in 1..n :
                 /\ sent[base + 1 + i].role = "tool"
                 /\ sent[base + 1 + i].tool_call_id = message.tool_calls[i].id
                 /\ StructuredCalls[i].name = message.tool_calls[i].name
                 /\ sent[base + 1 + i].content = TurnOf(StructuredCalls[i])
            /\ \A i, j \in 1..n :
                 i # j => sent[base + 1 + i].tool_call_id
                              # sent[base + 1 + j].tool_call_id

C15_Step ==
    /\ Len(messages') >= Len(messages)
    /\ SubSeq(messages', 1, Len(messages)) = messages

\* C15: the second request carries the original turns, one assistant turn
\* and then one tool turn per structured call, the i-th with the result and
\* the id of the i-th call; the message list only ever grows at its end.
C15_SecondRequestMessages == [] C15_Sent /\ [][C15_Step]_vars

C15_Witness ==
    /\ SecondRequests # {}
    /\ Len(message.tool_calls) = 2
    /\ message.tool_calls[1].name # message.tool_calls[2].name
    /\ calls[1].result.text # calls[2].result.text
    /\ cpc = "done"


\* The calls the exchange has detected so far, in the order of detection:
\* those of message.tool_calls, then those of the text given to the
\* extractor.
Call(name, arguments) == [name |-> name, arguments |-> arguments]

StructuredDetected ==
    IF message = NoMessage THEN <<>>
    ELSE [i \in DOMAIN message.tool_calls |->
            Call(message.tool_calls[i].name,
                 LoadArguments(message.tool_calls[i]))]

TextDetected ==
    IF xin = <<>> \/ ExtractorOff(cfg, xin) THEN <<>>
    ELSE LET found == FindAll(xin) IN
         [i \in DOMAIN found |->
            Call(found[i].name, ParseArguments(found[i].args))]

Detected == StructuredDetected \o TextDetected

Dispatched ==
    [i \in DOMAIN calls |-> Call(calls[i].name, calls[i].arguments)]

\* C16: the calls dispatched are at any time the first of the calls
\* detected, once each and in their order, and all of them when chat
\* returns; no dispatch raises, and an exchange that dispatched textual
\* calls returns its text.
C16_EachCallOnceInOrder ==
    cfg.client \in {"AIClient", "MCPAgent"} =>
        LET detected == Detected
            dispatched == Dispatched
        IN  /\ Len(dispatched) <= Len(detected)
            /\ dispatched = SubSeq(detected, 1, Len(dispatched))
            /\ \A i \in DOMAIN calls : calls[i].result.kind # "raise"
            /\ cpc = "done" =>
                 /\ dispatched = detected
                 /\ (\E i \in DOMAIN calls : calls[i].site = "text")
                        => reply.kind = "text"

\* A failed call first, a sibling after it, the continuation request
\* failing, and a textual call dispatched after the fallback.
C16_Witness ==
    /\ cfg.client = "AIClient"
    /\ cpc = "done"
    /\ Len(requests) = 3
    /\ Len(calls) = 3
    /\ calls[1].result.kind # "ok"
    /\ calls[2].site = "structured"
    /\ calls[3].site = "text"


\* C17: an exchange makes at most two requests; the first carries the tool
\* list, and a second one, without tools, is made only after a structured
\* call was dispatched and its result appended.
C17_AtMostTwoRequests ==
    (cfg.client = "AIClient" /\ AvailableTools(cfg) # {}) =>
        /\ Len(requests) <= 2
        /\ Len(requests) >= 1 => requests[1].tools
        /\ Len(requests) >= 2 =>
             /\ ~requests[2].tools
             /\ StructuredCalls # <<>>
             /\ \E i \in DOMAIN requests[2].messages :
                    requests[2].messages[i].role = "tool"

\* C18: no exchange dispatches calls both from a structured call list and
\* from the extraction of a text.
C18_StructuredOrTextual ==
    cfg.client = "AIClient" =>
        ~ /\ \E i \in DOMAIN calls : calls[i].site = "structured"
          /\ \E i \in DOMAIN calls : calls[i].site = "text"


\* The configuration the client was built from has neither a credential
\* nor an endpoint once white space is trimmed.
BothAbsent(config) ==
    /\ \A i \in DOMAIN config[1] : config[1][i] \in WhiteSpace
    /\ \A i \in DOMAIN config[2] : config[2][i] \in WhiteSpace

\* C19: an AIClient is in mock mode exactly when its credential and its
\* endpoint are both absent; in mock mode chat makes no request, dispatches
\* no tool, does not raise, returns the canned text of the prompt whatever
\* the system prompt, and is_available is true.
C19_MockMode ==
    cfg.client = "AIClient" =>
        /\ \A config \in Credentials, s \in BOOLEAN :
               cfg = AIClientInit(config, s) =>
                   (cfg.mock_mode <=> BothAbsent(config))
        /\ cfg.mock_mode =>
               /\ requests = <<>>
               /\ calls = <<>>
               /\ messages = <<>>
               /\ cpc \in {"idle", "done"}
               /\ \A r \in {reply, ChatFailure("connection")} :
                      is_available(cfg, r)
               /\ cpc = "done" =>
                      /\ reply.kind = "mock"
                      /\ \A system_prompt \in BOOLEAN :
                             reply.text = get_mock_response(prompt, system_prompt)

C19_Witness ==
    /\ cfg.client = "AIClient"
    /\ cfg.mock_mode
    /\ cfg.mcp_server
    /\ cpc = "done"
    /\ prompt = <<"Analyze", SP, "CREATE">>
    /\ reply.text = <<"intent: create_project">>


\* The reply of a chat whose request raised error.
FailedWith(error) ==
    /\ cfg.client = "AIClient"
    /\ cpc = "done"
    /\ reply.kind \notin {"none", "text", "mock"}
    /\ reply.text = <<error>>

\* C20: an authentication failure, a connection failure and a rate-limit
\* failure are reported by three different outcomes, none of them the
\* generic one.
C20_ThreeFailureKinds ==
    \A e \in Exceptions :
        FailedWith(e) =>
            /\ reply.kind # "service failed"
            /\ \A other \in Exceptions \ {e} : reply.kind # ChatFailure(other).kind


\* The registrations that stored a function.
Stored == SelectSeq(registered, LAMBDA r : r.outcome = "ok")

RegisteredNames == {Stored[i].tool_name : i \in DOMAIN Stored}

LastUnder(n) ==
    Stored[Greatest({i \in DOMAIN Stored : Stored[i].tool_name = n})].func

\* C22: get_tool_by_name gives the function of the last registration under
\* the name, None for a name never registered, and get_tools lists the
\* names registered; registering a name again raises nothing.
C22_LastRegistrationWins ==
    /\ DOMAIN get_tools = RegisteredNames
    /\ \A n \in RegNames \cup {"f", "divide"} :
         get_tool_by_name(n) =
             IF n \in RegisteredNames THEN LastUnder(n) ELSE NoName
    /\ \A i \in DOMAIN registered :
         registered[i].outcome = "RuntimeError" =>
             \A j \in 1..i : registered[j].outcome # "ok"

C22_Witness ==
    /\ subclass = "BaseMCPTools"
    /\ Len(Stored) = 3
    /\ Stored[1].tool_name = "add"
    /\ Stored[2].tool_name = "g"
    /\ Stored[3].tool_name = "add"
    /\ Stored[3].func # Stored[1].func
    /\ get_tool_by_name("add") = Stored[3].func


\* C23: a read_file that follows a successful write_file of the same path
\* returns the content written, the last one written; a successful
\* create_directory leaves a directory under the project directory.
C23_WriteReadRoundTrip ==
    /\ \A j \in 2..Len(fops) :
         ( /\ fops[j].op = "read_file"
           /\ fops[j - 1].op = "write_file"
           /\ fops[j - 1].result = "True"
           /\ fops[j - 1].path = fops[j].path ) =>
             /\ fops[j].result = "returned"
             /\ fops[j].content = fops[j - 1].content
    /\ \A j \in DOMAIN fops :
         (fops[j].op = "create_directory" /\ fops[j].result = "True"
              /\ UP \notin Range(fops[j].path)) =>
             IsDir(fs, current_project_dir \o fops[j].path)


\* The calls of create_project that returned, and those made.
Creations == SelectSeq(pops, LAMBDA o : o.op = "create_project")
Created == SelectSeq(Creations, LAMBDA o : o.result = "none")

\* C24: every create_project that succeeded left a directory with
\* project.json and sections, list_projects has one entry for each of them,
\* and k calls with k different names, each with a letter or digit in it,
\* give k entries.
C24_OneEntryPerProject ==
    (\A i \in DOMAIN pops : pops[i].op = "create_project") =>
        LET listed == list_projects(PmState) IN
        /\ \A i \in DOMAIN Created :
             LET project_dir == Under(Workspace, Sanitize(Created[i].arguments)) IN
             /\ IsFile(fs, Append(project_dir, ProjectJson))
             /\ IsDir(fs, Append(project_dir, <<"sections">>))
             /\ project_dir \in DOMAIN listed
        /\ Cardinality(DOMAIN listed) = Len(Created)
        /\ (/\ \A i \in DOMAIN Creations :
                   Sanitize(Creations[i].arguments) # <<>>
            /\ \A i, j \in DOMAIN Creations :
                   i # j => Creations[i].arguments # Creations[j].arguments)
               => Cardinality(DOMAIN listed) = Len(Creations)


\* The results of the two call sites of the agent for one call.
BothSites(tool_name, arguments) ==
    [registered |-> RegisteredTool(PmState, tool_name, arguments, Len(pops)),
     direct |-> DirectTool(PmState, tool_name, arguments, Len(pops))]

\* C29: for every tool that both call sites of MCPAgent handle, every
\* argument map and every state of the project manager, the tool function
\* given to the agent and _call_tool_directly return the same text and leave
\* the same state.
C29_CallSitesEquivalent ==
    \A tool_name \in ProjectToolNames :
        \A arguments \in ProjectToolArguments(tool_name) :
            LET both == BothSites(tool_name, arguments) IN
            both.registered = both.direct


\* The tool names a client tells the model it may call.
Advertised(c) ==
    IF c.client = "AIClient" THEN AvailableTools(c)
    ELSE IF c.client = "MCPAgent" THEN AgentAdvertised
    ELSE {}

\* C28: a call of an advertised tool name is handled by the dispatcher of
\* the client that advertised it: _call_mcp_tool of AIClient and
\* _call_tool_directly of MCPAgent never answer it with "unknown tool".
C28_AdvertisedResolves ==
    \A i \in DOMAIN calls :
        calls[i].name \in Advertised(cfg) => calls[i].result.kind # "unknown"


\* C21: chat of AIClient and chat_sync of MCPAgent end with a reply and
\* never raise, whatever the service or the agent did; process_message
\* returns a text and never raises, whatever its agent, its client and its
\* handlers did; and when it has returned, the next message can be
\* processed.
C21_NoFaultEndsSession ==
    /\ (cpc = "done" /\ cfg.client \in {"AIClient", "MCPAgent"})
           => reply.kind \notin {"raised", "none"}
    /\ cfg.client = "TenderAI" =>
           /\ session.pc # "crashed"
           /\ session.pc = "returned" =>
                  /\ session.answer.kind = "text"
                  /\ session.count < MaxMessages => ENABLED ProcessMessage

\* A message was answered after a message that ended in the outer except
\* clause.
C21_Witness ==
    /\ cfg.client = "TenderAI"
    /\ session.pc = "returned"
    /\ session.count = 2
    /\ Len(history) = 3
    /\ history[2].role = "user"
    /\ session.answer.path = "ai"


\* The last n of the messages added.
MostRecent(added, n) ==
    SubSeq(added, Len(added) - n + 1, Len(added))

\* C30: after any calls of add_message the history holds at most
\* max_history messages, the most recent ones in the order they were added,
\* the last one being the one added last; and when process_message has
\* answered by its agent, its client or a keyword handler, it has appended
\* one user turn and after it one assistant turn.
C30_HistoryIsRecent ==
    /\ Len(history) <= max_history
    /\ session.pc = "manager" =>
           LET added == session.added
               kept == IF Len(added) < max_history THEN Len(added)
                       ELSE max_history
           IN  /\ max_history > 0 => history = MostRecent(added, kept)
               /\ (added # <<>> /\ max_history > 0) =>
                      history[Len(history)] = added[Len(added)]
    /\ (session.pc = "returned"
            /\ session.answer.path \in {"agent", "ai", "keyword"}) =>
           history = session.before
                         \o <<Msg("user", session.message),
                              Msg("assistant", session.answer.text)>>


\* C26: _run_parallel_tasks of an empty batch returns a report with
\* total_tasks 0, completed 0 and no results, without a success_rate, and
\* does not raise.
C26_EmptyBatchReport ==
    (Total = 0 /\ fpc \in {"returned", "raised"}) =>
        /\ report.kind = "report"
        /\ report.total_tasks = 0
        /\ report.completed = 0
        /\ report.results = EmptyDict
        /\ "success_rate" \notin DOMAIN report

\* C27: in every report, complete or timed out, completed is the number of
\* entries of results and at most total_tasks.
C27_CompletedCountsResults ==
    fpc = "returned" =>
        /\ report.completed = Cardinality(DOMAIN report.results)
        /\ report.completed <= report.total_tasks


\* The task functions that are executing, of whatever batch.
Executing ==
    Cardinality({i \in Futures : fstate[i] = "running"})
        + Cardinality({k \in DOMAIN executor.earlier :
                          executor.earlier[k] = "running"})

\* C25: at every moment at most max_workers task functions are running on
\* the pool, those of an earlier batch that timed out included, and a task
\* starts only when a worker is free.
C25_AtMostMaxWorkers ==
    /\ [](Executing <= max_workers)
    /\ [][Executing' > Executing => Executing < max_workers]_vars

\* The pool is full with a task of a batch that timed out and a task of the
\* next batch, and a task of the next batch waits in the queue.
C25_Witness ==
    /\ executor.after = "Timeout"
    /\ EarlierRunning # {}
    /\ Running # {}
    /\ Queued # {}
    /\ Executing = max_workers

====
